---------------------------- MODULE Spec2Model ----------------------------
(***************************************************************************)
(* Model of the bulk-load pipeline of Cargue_masivoW: classification of    *)
(* the rows of the structures sheet, routing of the rows to the NEW and    *)
(* DECOMMISSION (BAJA) outputs, validation and file generation.            *)
(*                                                                         *)
(* Python strings are TLA+ strings; a Python dict is a function whose      *)
(* DOMAIN is the set of keys that are present.                             *)
(***************************************************************************)
EXTENDS Integers, Sequences, FiniteSets, TLC

VARIABLES
    excel,          \* the sheet 'Estructuras_N1-N2-N3' of the uploaded workbook
    estado,         \* proceso.estado
    errores,        \* proceso.errores
    datos_excel,    \* proceso.datos_excel
    datos_norma,    \* proceso.datos_norma
    archivos,       \* the files on disk: kind of file -> rows written (header excluded)
    llamada,        \* the last call made: its name and the exception it raised ("" when it returned)
    reloj,          \* datetime.now(), as a tick count
    reclasificado,  \* result of a further classification pass over datos_excel
    fecha,          \* a date value handed to the three date formatters
    formateada,     \* formatter -> what it returned for fecha
    hoja_norma,     \* the sheet 'Normas' of the uploaded workbook
    bd,             \* the Oracle database: settings, reachability and tables
    respuesta       \* what the last read of the repository returned

vars == << excel, estado, errores, datos_excel, datos_norma,
           archivos, llamada, reloj, reclasificado, fecha, formateada,
           hoja_norma, bd, respuesta >>

-----------------------------------------------------------------------------
(* Bounds of the model *)

MaxRegistros == 2
MaxReloj == 1

-----------------------------------------------------------------------------
(* Python str and dict primitives *)

Ch(s, i) == SubSeq(s, i, i)

Digitos == "0123456789"
Mayusculas == "ABCDEFGHIJKLMNOPQRSTUVWXYZ"
Minusculas == "abcdefghijklmnopqrstuvwxyz"
Blancos == {" ", "\n", "\r", "\t"}

\* position of character c in alphabet a, 0 when absent
IndexOf(c, a) ==
    IF \E i \in 1..Len(a) : Ch(a, i) = c
    THEN CHOOSE i \in 1..Len(a) : Ch(a, i) = c /\ \A j \in 1..(i-1) : Ch(a, j) # c
    ELSE 0

IsDigit(c) == IndexOf(c, Digitos) > 0

AllDigits(s) == Len(s) > 0 /\ \A i \in 1..Len(s) : IsDigit(Ch(s, i))

RECURSIVE StrToNat(_)
StrToNat(s) ==
    IF Len(s) = 0 THEN 0
    ELSE 10 * StrToNat(SubSeq(s, 1, Len(s) - 1)) + (IndexOf(Ch(s, Len(s)), Digitos) - 1)

UpperCh(c) == LET i == IndexOf(c, Minusculas) IN IF i > 0 THEN Ch(Mayusculas, i) ELSE c
LowerCh(c) == LET i == IndexOf(c, Mayusculas) IN IF i > 0 THEN Ch(Minusculas, i) ELSE c

RECURSIVE Upper(_)
Upper(s) == IF Len(s) = 0 THEN "" ELSE UpperCh(Ch(s, 1)) \o Upper(Tail(s))

RECURSIVE Lower(_)
Lower(s) == IF Len(s) = 0 THEN "" ELSE LowerCh(Ch(s, 1)) \o Lower(Tail(s))

RECURSIVE LStrip(_)
LStrip(s) == IF Len(s) > 0 /\ Ch(s, 1) \in Blancos THEN LStrip(Tail(s)) ELSE s

RECURSIVE RStrip(_)
RStrip(s) ==
    IF Len(s) > 0 /\ Ch(s, Len(s)) \in Blancos THEN RStrip(SubSeq(s, 1, Len(s) - 1)) ELSE s

\* str.strip()
Strip(s) == RStrip(LStrip(s))

\* str.startswith(p)
StartsWith(s, p) == Len(p) <= Len(s) /\ SubSeq(s, 1, Len(p)) = p

\* p in s
Contains(s, p) == \E i \in 1..(Len(s) - Len(p) + 1) : SubSeq(s, i, i + Len(p) - 1) = p

\* str.replace(a, b) for a single character a
RECURSIVE Replace(_, _, _)
Replace(s, a, b) ==
    IF Len(s) = 0 THEN ""
    ELSE (IF Ch(s, 1) = a THEN b ELSE Ch(s, 1)) \o Replace(Tail(s), a, b)

\* str.split(sep) for a single character sep
RECURSIVE Split(_, _)
Split(s, sep) ==
    IF ~ Contains(s, sep) THEN << s >>
    ELSE LET i == IndexOf(sep, s)
         IN << SubSeq(s, 1, i - 1) >> \o Split(SubSeq(s, i + 1, Len(s)), sep)

\* dict.get(k, '')
Get(r, k) == IF k \in DOMAIN r THEN r[k] ELSE ""

\* dict[k] = v
Put(r, k, v) == [x \in (DOMAIN r) \cup {k} |-> IF x = k THEN v ELSE r[x]]

\* dict.update(d)
Update(r, d) == [x \in (DOMAIN r) \cup (DOMAIN d) |-> IF x \in DOMAIN d THEN d[x] ELSE r[x]]

\* the element of a set of one element: Unico({F(x) : x \in {e}}) is F(e), with e
\* evaluated once and named x
Unico(S) == CHOOSE x \in S : TRUE

EmptyDict == [x \in {} |-> ""]

\* Python truthiness of a str
Truthy(s) == s # ""

-----------------------------------------------------------------------------
(* datetime.strptime / strftime for the formats the formatters use *)

Pad2(n) == IF n < 10 THEN "0" \o ToString(n) ELSE ToString(n)

EsBisiesto(y) == (y % 4 = 0 /\ y % 100 # 0) \/ y % 400 = 0

DiasDelMes(m, y) ==
    IF m = 2 THEN (IF EsBisiesto(y) THEN 29 ELSE 28)
    ELSE IF m \in {4, 6, 9, 11} THEN 30 ELSE 31

\* %d : 3[0-1]|[1-2]\d|0[1-9]|[1-9]| [1-9]
DirectivaD(p) ==
    \/ Len(p) = 2 /\ AllDigits(p) /\ StrToNat(p) \in 1..31
    \/ Len(p) = 1 /\ AllDigits(p) /\ StrToNat(p) \in 1..9
    \/ Len(p) = 2 /\ Ch(p, 1) = " " /\ IsDigit(Ch(p, 2)) /\ StrToNat(Ch(p, 2)) \in 1..9

\* %m : 1[0-2]|0[1-9]|[1-9]
DirectivaM(p) ==
    \/ Len(p) = 2 /\ AllDigits(p) /\ StrToNat(p) \in 1..12
    \/ Len(p) = 1 /\ AllDigits(p) /\ StrToNat(p) \in 1..9

\* %Y : \d\d\d\d
DirectivaY(p) == Len(p) = 4 /\ AllDigits(p)

\* the three directives of a format, in the format's order
Directivas(formato) ==
    CASE formato = "%d/%m/%Y" -> << "d", "m", "Y" >>
      [] formato = "%d-%m-%Y" -> << "d", "m", "Y" >>
      [] formato = "%m/%d/%Y" -> << "m", "d", "Y" >>
      [] formato = "%Y-%m-%d" -> << "Y", "m", "d" >>
      [] formato = "%Y/%m/%d" -> << "Y", "m", "d" >>

Separador(formato) == Ch(formato, 3)

Cumple(dir, p) ==
    CASE dir = "d" -> DirectivaD(p)
      [] dir = "m" -> DirectivaM(p)
      [] dir = "Y" -> DirectivaY(p)

ValorDe(p) == StrToNat(LStrip(p))

\* datetime.strptime(s, formato): [ok |-> TRUE, d, m, y] or [ok |-> FALSE] for ValueError
Strptime(s, formato) ==
    LET partes == Split(s, Separador(formato))
        dirs == Directivas(formato)
        pos(x) == CHOOSE i \in 1..3 : dirs[i] = x
    IN  IF Len(partes) # 3 \/ \E i \in 1..3 : ~ Cumple(dirs[i], partes[i])
        THEN [ok |-> FALSE, d |-> 0, m |-> 0, y |-> 0]
        ELSE LET d == ValorDe(partes[pos("d")])
                 m == ValorDe(partes[pos("m")])
                 y == ValorDe(partes[pos("Y")])
             IN  IF y >= 1 /\ d <= DiasDelMes(m, y)
                 THEN [ok |-> TRUE, d |-> d, m |-> m, y |-> y]
                 ELSE [ok |-> FALSE, d |-> 0, m |-> 0, y |-> 0]

\* fecha_obj.strftime('%d/%m/%Y')
StrftimeDMY(f) == Pad2(f.d) \o "/" \o Pad2(f.m) \o "/" \o ToString(f.y)

\* for formato in formatos: try strptime ... except ValueError: continue
\* the first format that parses, 0 when none does
PrimerFormato(s, formatos) ==
    IF \E i \in 1..Len(formatos) : Strptime(s, formatos[i]).ok
    THEN CHOOSE i \in 1..Len(formatos) :
            /\ Strptime(s, formatos[i]).ok
            /\ \A j \in 1..(i - 1) : ~ Strptime(s, formatos[j]).ok
    ELSE 0

\* re.match(r'^\d{2}/\d{2}/\d{4}$', s)
EsDDMMYYYY(s) ==
    /\ Len(s) = 10
    /\ Ch(s, 3) = "/" /\ Ch(s, 6) = "/"
    /\ \A i \in {1, 2, 4, 5, 7, 8, 9, 10} : IsDigit(Ch(s, i))

FormatosDataUtils == << "%Y-%m-%d", "%d/%m/%Y", "%m/%d/%Y", "%Y/%m/%d" >>
FormatosGeneradorBase == << "%d/%m/%Y", "%Y-%m-%d", "%d-%m-%Y", "%m/%d/%Y", "%Y/%m/%d" >>
FormatosTxtEstructuras == << "%d/%m/%Y", "%Y-%m-%d", "%d-%m-%Y", "%Y/%m/%d" >>

\* DataUtils.formatear_fecha for a str argument.  The function body holds
\* 'from datetime import datetime, timedelta' (inside the int/float branch), which
\* makes datetime a local name of the whole function: for a str the parsing loop
\* reads that unbound local, the UnboundLocalError is not a ValueError and reaches
\* the outer 'except Exception: return ""'.
DataUtilsFormatearFecha(f) ==
    IF f = "" \/ Strip(f) = "" THEN ""
    ELSE IF EsDDMMYYYY(Strip(f)) THEN Strip(f)
    ELSE ""

\* GeneradorBase.formatear_fecha, formato_salida = 'DD/MM/YYYY'
GeneradorBaseFormatearFecha(valor) ==
    IF valor = "" \/ Lower(Strip(valor)) \in {"nan", "none", ""} THEN "01/01/1900"
    ELSE LET s == Strip(valor)
             i == PrimerFormato(s, FormatosGeneradorBase)
         IN  IF i > 0 THEN StrftimeDMY(Strptime(s, FormatosGeneradorBase[i]))
             ELSE "01/01/1900"

\* a _formatear_fecha that blanks what it cannot parse
TxtEstructurasFormatearFechaVacia(f) ==
    IF f = "" THEN ""
    ELSE LET i == PrimerFormato(f, FormatosTxtEstructuras)
         IN  IF i > 0 THEN StrftimeDMY(Strptime(f, FormatosTxtEstructuras[i]))
             ELSE ""

\* TXTEstructurasGenerator._formatear_fecha
TxtEstructurasFormatearFecha(f) ==
    IF f = "" THEN ""
    ELSE LET i == PrimerFormato(f, FormatosTxtEstructuras)
         IN  IF i > 0 THEN StrftimeDMY(Strptime(f, FormatosTxtEstructuras[i]))
             ELSE f

-----------------------------------------------------------------------------
(* Rule tables of estructuras/constants.py *)

\* REGLAS_CLASIFICACION['CLASIFICACION_TIPO_POR_UC']['REGLAS_PRIORITARIAS']:
\* the patterns ^N1, ^N2, ^N3, ^N4, each given by the prefix it matches
ReglasPrioritariasTipo ==
    << [PATRON |-> "N1", TIPO |-> "SECUNDARIO"],
       [PATRON |-> "N2", TIPO |-> "PRIMARIO"],
       [PATRON |-> "N3", TIPO |-> "PRIMARIO"],
       [PATRON |-> "N4", TIPO |-> "PRIMARIO"] >>

ValorDefectoTipo == "SECUNDARIO"

\* REGLAS_CLASIFICACION['CONVERSION_TIPO_PROYECTO']: the roman entries
ConversionTipoProyecto ==
    [x \in {"I", "II", "III", "IV"} |->
        CASE x = "I" -> "T1" [] x = "II" -> "T2" [] x = "III" -> "T3" [] x = "IV" -> "T4"]

ValorDefectoTipoProyecto == ""

\* REGLAS_CLASIFICACION['CONVERSION_TIPO_PROYECTO']['MAPEO_NIVEL_TENSION'], in dict order
MapeoNivelTension ==
    << << "N3L75", "T1" >>, << "N3L79", "T3" >>, << "N4L", "T4" >> >>

\* ESTADOS_SALUD
EstadosSalud ==
    [x \in {"1", "2", "3", "BUENO", "REGULAR", "MALO"} |->
        CASE x \in {"1", "BUENO"} -> "BUENO"
          [] x \in {"2", "REGULAR"} -> "REGULAR"
          [] x \in {"3", "MALO"} -> "MALO"]

\* MAPEO_UC_MATERIAL['MAPEOS_DIRECTOS']
MapeosDirectos == [x \in {"N3L75"} |-> "200067"]

\* MAPEO_UC_MATERIAL['REGLAS_POR_PATRON']: one rule, pattern ^N\dL(\d+)$ with its 'mapeo'
MapeoCargas == [x \in {"79"} |-> "200068"]

\* MAPEO_UC_MATERIAL['MAPEO_POR_DEFECTO']
MapeoPorDefecto == [x \in {"PRIMARIO", "SECUNDARIO"} |->
                        IF x = "PRIMARIO" THEN "200070" ELSE "200071"]

CatalogoMateriales == {"200067", "200068", "200070"}

-----------------------------------------------------------------------------
(* DataUtils and ClasificadorEstructuras *)

\* re.fullmatch(r"\d+\.0+", s)
EsEnteroPuntoCeros(s) ==
    \E i \in 2..(Len(s) - 1) :
        /\ Ch(s, i) = "."
        /\ AllDigits(SubSeq(s, 1, i - 1))
        /\ \A j \in (i + 1)..Len(s) : Ch(s, j) = "0"

\* DataUtils.normalizar_codigo_material, for a str
NormalizarCodigoMaterial(valor) ==
    LET s == Strip(valor)
        s2 == Replace(s, ",", ".")
    IN  IF s = "" THEN ""
        ELSE IF AllDigits(s2) THEN s2
        ELSE IF EsEnteroPuntoCeros(s2) THEN Split(s2, ".")[1]
        ELSE s

Romanos == "IVXLCDM"
EsRomano(c) == IndexOf(c, Romanos) > 0

\* re.findall(r"[IVXLCDM]+", s): the maximal runs, as pairs << first, last >>
Coincidencias(s) ==
    {<< i, j >> \in (1..Len(s)) \X (1..Len(s)) :
        /\ i <= j
        /\ \A k \in i..j : EsRomano(Ch(s, k))
        /\ (i = 1 \/ ~ EsRomano(Ch(s, i - 1)))
        /\ (j = Len(s) \/ ~ EsRomano(Ch(s, j + 1)))}

\* max(coincidencias, key=len) if coincidencias else tipo_limpio
RomanoExtraido(s) ==
    LET cs == Coincidencias(s)
    IN  IF cs = {} THEN s
        ELSE LET c == CHOOSE c \in cs :
                        \A o \in cs : \/ (o[2] - o[1]) < (c[2] - c[1])
                                      \/ ((o[2] - o[1]) = (c[2] - c[1]) /\ c[1] <= o[1])
             IN  SubSeq(s, c[1], c[2])

ValorRomano(c) ==
    CASE c = "I" -> 1 [] c = "V" -> 5 [] c = "X" -> 10 [] c = "L" -> 50
      [] c = "C" -> 100 [] c = "D" -> 500 [] c = "M" -> 1000 [] OTHER -> 0

\* the loop of _roman_to_int over reversed(s): i is the next position, from the right
RECURSIVE RomanLoop(_, _, _, _)
RomanLoop(s, i, total, prev) ==
    IF i = 0 THEN total
    ELSE LET v == ValorRomano(Ch(s, i))
         IN  IF v < prev THEN RomanLoop(s, i - 1, total - v, prev)
             ELSE RomanLoop(s, i - 1, total + v, v)

\* ClasificadorEstructuras._roman_to_int
RomanToInt(s) == LET t == Upper(Strip(s)) IN RomanLoop(t, Len(t), 0, 0)

\* a conversion that marks with a T whatever it cannot read as a roman numeral
ConvertirTipoProyectoMarcando(tipo_proyecto) ==
    IF tipo_proyecto = "" THEN tipo_proyecto
    ELSE IF RomanToInt(RomanoExtraido(Upper(Strip(tipo_proyecto)))) > 0
         THEN "T" \o ToString(RomanToInt(RomanoExtraido(Upper(Strip(tipo_proyecto)))))
         ELSE "T" \o tipo_proyecto

\* ClasificadorEstructuras._convertir_tipo_proyecto
ConvertirTipoProyecto(tipo_proyecto) ==
    IF tipo_proyecto = "" THEN tipo_proyecto
    ELSE LET romano_extraido == RomanoExtraido(Upper(Strip(tipo_proyecto)))
         IN  IF romano_extraido \in DOMAIN ConversionTipoProyecto
             THEN ConversionTipoProyecto[romano_extraido]
             ELSE IF RomanToInt(romano_extraido) > 0
                  THEN "T" \o ToString(RomanToInt(romano_extraido))
                  ELSE tipo_proyecto

\* ClasificadorEstructuras._generar_tipo_proyecto_desde_nivel_tension
GenerarTipoProyectoDesdeNivelTension(nivel_tension) ==
    IF nivel_tension = "" THEN ValorDefectoTipoProyecto
    ELSE LET nivel_limpio == Upper(Strip(nivel_tension))
             n == Len(MapeoNivelTension)
             exactos == {i \in 1..n : MapeoNivelTension[i][1] = nivel_limpio}
             patrones == {i \in 1..n :
                            /\ Ch(MapeoNivelTension[i][1], Len(MapeoNivelTension[i][1])) = "L"
                            /\ StartsWith(nivel_limpio, MapeoNivelTension[i][1])}
             primero(S) == CHOOSE i \in S : \A j \in S : i <= j
         IN  IF exactos # {} THEN MapeoNivelTension[primero(exactos)][2]
             ELSE IF patrones # {} THEN MapeoNivelTension[primero(patrones)][2]
             ELSE ValorDefectoTipoProyecto

\* ClasificadorEstructuras._clasificar_propietario
ClasificarPropietario(nombre_propietario) ==
    IF nombre_propietario = "" THEN "PARTICULAR"
    ELSE LET nombre_limpio == Upper(Strip(nombre_propietario))
             alguno(K) == \E k \in K : Contains(nombre_limpio, k)
         IN  IF alguno({"CENS", "CENTRALES", "ELECTRICA"}) THEN "CENS"
             ELSE IF alguno({"ESTADO", "GOBIERNO", "PUBLICO", "MINISTERIO"}) THEN "ESTADO"
             ELSE IF alguno({"COMPARTIDO", "CONSORCIO", "SOCIEDAD"}) THEN "COMPARTIDO"
             ELSE "PARTICULAR"

\* a classification of the type whose default is the other type
ClasificarTipoPorUcPrimario(uc) ==
    IF uc = "" THEN "PRIMARIO"
    ELSE LET hits == {i \in 1..Len(ReglasPrioritariasTipo) :
                        StartsWith(uc, ReglasPrioritariasTipo[i].PATRON)}
         IN  IF hits # {}
             THEN ReglasPrioritariasTipo[CHOOSE i \in hits : \A j \in hits : i <= j].TIPO
             ELSE "PRIMARIO"

\* ClasificadorEstructuras._clasificar_tipo_por_uc
ClasificarTipoPorUc(uc) ==
    IF uc = "" THEN ValorDefectoTipo
    ELSE LET hits == {i \in 1..Len(ReglasPrioritariasTipo) :
                        StartsWith(uc, ReglasPrioritariasTipo[i].PATRON)}
         IN  IF hits # {}
             THEN ReglasPrioritariasTipo[CHOOSE i \in hits : \A j \in hits : i <= j].TIPO
             ELSE ValorDefectoTipo

\* re.match(r'^N\dL(\d+)$', uc): group(1), "" when there is no match
CargaDeUc(uc) ==
    IF /\ Len(uc) >= 4
       /\ Ch(uc, 1) = "N" /\ IsDigit(Ch(uc, 2)) /\ Ch(uc, 3) = "L"
       /\ AllDigits(SubSeq(uc, 4, Len(uc)))
    THEN SubSeq(uc, 4, Len(uc))
    ELSE ""

\* ClasificadorEstructuras._asignar_codigo_material
AsignarCodigoMaterial(uc) ==
    LET uc_limpio == Upper(Strip(uc))
        carga == CargaDeUc(uc_limpio)
        tipo_estructura == ClasificarTipoPorUc(uc_limpio)
    IN  IF uc = "" \/ uc_limpio = "" THEN ""
        ELSE IF uc_limpio \in DOMAIN MapeosDirectos
                /\ MapeosDirectos[uc_limpio] \in CatalogoMateriales
             THEN MapeosDirectos[uc_limpio]
        ELSE IF carga \in DOMAIN MapeoCargas /\ MapeoCargas[carga] \in CatalogoMateriales
             THEN MapeoCargas[carga]
        ELSE IF tipo_estructura \in DOMAIN MapeoPorDefecto
                /\ MapeoPorDefecto[tipo_estructura] \in CatalogoMateriales
             THEN MapeoPorDefecto[tipo_estructura]
        ELSE ""

\* ClasificadorEstructuras._convertir_estado_salud
ConvertirEstadoSalud(estado_salud) ==
    IF estado_salud = "" \/ Upper(Strip(estado_salud)) \in {"", "NAN", "NONE"} THEN ""
    ELSE LET estado_str == Upper(Strip(estado_salud))
             estado_convertido == IF estado_str \in DOMAIN EstadosSalud
                                  THEN EstadosSalud[estado_str] ELSE ""
         IN  IF estado_convertido \in {"BUENO", "REGULAR", "MALO"} THEN estado_convertido
             ELSE ""

\* "; ".join(xs)
RECURSIVE Join(_, _)
Join(xs, sep) ==
    IF Len(xs) = 0 THEN ""
    ELSE IF Len(xs) = 1 THEN xs[1]
    ELSE xs[1] \o sep \o Join(Tail(xs), sep)

\* datetime.now().isoformat() at tick t
Isoformat(t) == "2025-11-05T08:03:4" \o ToString(t)

\* a list holding x when cond, else the empty list
Si(cond, x) == IF cond THEN << x >> ELSE << >>

\* a rule 6 that formats the installation date and leaves the operation date alone
IgualarFechasSoloInstalacion(registro_clasificado, fecha_instalacion) ==
    IF fecha_instalacion # ""
    THEN Put(registro_clasificado, "FECHA_INSTALACION", DataUtilsFormatearFecha(fecha_instalacion))
    ELSE registro_clasificado

\* clasificar_estructura, rule 6: FECHA_OPERACION equal to FECHA_INSTALACION
IgualarFechas(registro_clasificado, fecha_instalacion) ==
    IF fecha_instalacion # ""
    THEN Update(registro_clasificado,
            [FECHA_INSTALACION |-> DataUtilsFormatearFecha(fecha_instalacion),
             FECHA_OPERACION |-> DataUtilsFormatearFecha(fecha_instalacion)])
    ELSE registro_clasificado

\* ClasificadorEstructuras.clasificar_estructura, called at tick ahora
ClasificarEstructura(registro, ahora) ==
    LET propietario_clasificado == ClasificarPropietario(Get(registro, "PROPIETARIO"))
        uc_mayus == Upper(Strip(Get(registro, "UC")))
        tipo_clasificado == ClasificarTipoPorUc(uc_mayus)
        nivel_tension == Strip(Get(registro, "NIVEL_TENSION"))
        uc == Strip(Get(registro, "UC"))
        valor_para_mapeo == IF nivel_tension # "" THEN nivel_tension ELSE uc
        tipo_proyecto_generado == GenerarTipoProyectoDesdeNivelTension(valor_para_mapeo)
        tipo_proyecto_original == Strip(Get(registro, "TIPO_PROYECTO"))
        tipo_proyecto_convertido == ConvertirTipoProyecto(tipo_proyecto_original)
        nota_generado ==
            "TIPO_PROYECTO generado como '" \o tipo_proyecto_generado \o "' basado en "
            \o (IF nivel_tension # "" THEN "NIVEL_TENSION" ELSE "UC") \o ": " \o valor_para_mapeo
        fecha_instalacion == Get(registro, "FECHA_INSTALACION")
        cm_excel == NormalizarCodigoMaterial(Get(registro, "CODIGO_MATERIAL"))
        from_excel_flag == Get(registro, "_CODIGO_MATERIAL_FROM_EXCEL") = "True"
        codigo_material == AsignarCodigoMaterial(uc)
        estado_salud_convertido == ConvertirEstadoSalud(Get(registro, "ESTADO_SALUD"))
        r1 == Update(registro,
                [GRUPO |-> "ESTRUCTURAS EYT", CLASE |-> "POSTE",
                 USO |-> "DISTRIBUCION ENERGIA", PORCENTAJE_PROPIEDAD |-> "100",
                 PROPIETARIO |-> propietario_clasificado, TIPO |-> tipo_clasificado,
                 TIPO_PROYECTO |-> IF tipo_proyecto_generado # "" THEN tipo_proyecto_generado
                                   ELSE tipo_proyecto_convertido])
        r2 == IgualarFechas(r1, fecha_instalacion)
        r3 == IF cm_excel # "" THEN Put(r2, "CODIGO_MATERIAL", cm_excel)
              ELSE IF ~ from_excel_flag /\ codigo_material # ""
                   THEN Put(r2, "CODIGO_MATERIAL", NormalizarCodigoMaterial(codigo_material))
                   ELSE r2
        r4 == IF estado_salud_convertido # ""
              THEN Put(r3, "ESTADO_SALUD", estado_salud_convertido)
              ELSE r3
        observaciones_clasificacion ==
            Si(tipo_proyecto_generado # "", nota_generado)
            \o << "TIPO clasificado como " \o tipo_clasificado \o " basado en UC: " \o uc,
                  "GRUPO forzado a 'ESTRUCTURAS EYT'",
                  "CLASE forzada a 'POSTE'",
                  "USO forzado a 'DISTRIBUCION ENERGIA'",
                  "PORCENTAJE_PROPIEDAD forzado a '100'" >>
            \o Si(cm_excel = "" /\ Get(r4, "CODIGO_MATERIAL") # "",
                  "CODIGO_MATERIAL asignado como '" \o Get(r4, "CODIGO_MATERIAL")
                  \o "' basado en UC: " \o uc)
            \o Si(estado_salud_convertido # ""
                  /\ estado_salud_convertido # Get(registro, "ESTADO_SALUD"),
                  "ESTADO_SALUD convertido de '" \o Get(registro, "ESTADO_SALUD")
                  \o "' a '" \o estado_salud_convertido \o "'")
            \o Si(tipo_proyecto_generado # "", nota_generado)
            \o Si(tipo_proyecto_generado = "" /\ tipo_proyecto_original # tipo_proyecto_convertido,
                  "TIPO_PROYECTO convertido de '" \o tipo_proyecto_original
                  \o "' a '" \o tipo_proyecto_convertido \o "'")
            \o Si(fecha_instalacion # "", "FECHA_OPERACION igualada a FECHA_INSTALACION")
        r5 == IF Strip(Get(registro, "OBSERVACIONES")) = "" THEN Put(r4, "OBSERVACIONES", "")
              ELSE r4
    IN  Update(r5,
            [OBSERVACION_CLASIFICACION_SISTEMA |-> Join(observaciones_clasificacion, "; "),
             FECHA_CLASIFICACION |-> Isoformat(ahora),
             VERSION_REGLAS |-> "2.5"])

-----------------------------------------------------------------------------
(* float() and the fixed-point formats, for the decimal literals a cell holds: *)
(* [sign] digits [. digits]                                                    *)

Signo(s) == IF Len(s) > 0 /\ Ch(s, 1) \in {"-", "+"} THEN Ch(s, 1) ELSE ""
SinSigno(s) == IF Signo(s) = "" THEN s ELSE Tail(s)

\* float(str(valor)): [ok |-> FALSE] stands for ValueError
ParseFloat(valor) ==
    LET s == Strip(valor)
        cuerpo == SinSigno(s)
        partes == Split(cuerpo, ".")
        ent == partes[1]
        frac == IF Len(partes) = 2 THEN partes[2] ELSE ""
        digitosODnada(x) == x = "" \/ AllDigits(x)
    IN  IF /\ Len(partes) \in {1, 2}
           /\ digitosODnada(ent) /\ digitosODnada(frac)
           /\ (ent # "" \/ frac # "")
        THEN [ok |-> TRUE, neg |-> Signo(s) = "-", ent |-> StrToNat(ent), frac |-> frac]
        ELSE [ok |-> FALSE, neg |-> FALSE, ent |-> 0, frac |-> ""]

EsCero(f) == f.ent = 0 /\ \A i \in 1..Len(f.frac) : Ch(f.frac, i) = "0"

\* the first n characters of s padded with zeros on the right
RECURSIVE Relleno(_, _)
Relleno(s, n) ==
    IF n = 0 THEN ""
    ELSE IF Len(s) = 0 THEN "0" \o Relleno(s, n - 1)
    ELSE Ch(s, 1) \o Relleno(Tail(s), n - 1)

\* f"{x:.6f}" for a literal of at most six decimals
Formato6(f) == (IF f.neg THEN "-" ELSE "") \o ToString(f.ent) \o "." \o Relleno(f.frac, 6)

\* str(int(x))
EnteroDe(f) == (IF f.neg /\ f.ent # 0 THEN "-" ELSE "") \o ToString(f.ent)

-----------------------------------------------------------------------------
(* ExcelProcessor: the sheet 'Estructuras_N1-N2-N3' *)

\* the sheet is [legible, columnas, filas]; a row maps every column to the text of its
\* cell ("" for NaN)

\* ExcelProcessor._verificar_campos
VerificarCampos(columnas_excel) ==
    LET posibles(campo) ==
            CASE campo = "Norma" -> {"Norma", "NORMA", "norma"}
              [] campo = "UC" -> {"UC", "Unidad_Constructiva", "Unidad Constructiva",
                                  "UNIDAD_CONSTRUCTIVA", "unidad_constructiva",
                                  "unidad constructiva", "Unnamed: 25"}
              [] campo = "Poblacion" -> {"Poblacion", "POBLACION", "poblacion", "Población",
                                         "MUNICIPIOS", "Municipios", "Municipio", "municipio"}
        falta(campo) == ~ \E col \in columnas_excel : Strip(col) \in posibles(campo)
    IN  Si(falta("Norma"), "Norma") \o Si(falta("UC"), "UC") \o Si(falta("Poblacion"), "Poblacion")

\* ExcelProcessor._es_campo_fecha
EsCampoFecha(nombre_columna) ==
    Contains(Lower(nombre_columna), "fecha") \/ Contains(Lower(nombre_columna), "instalacion")

\* ExcelProcessor.procesar_archivo, the rows it returns when the sheet is readable and
\* no basic column is missing
LeerFilas(hoja) ==
    [i \in 1..Len(hoja.filas) |->
        [col \in DOMAIN hoja.filas[i] |->
            LET val == hoja.filas[i][col]
            IN  IF val = "" THEN ""
                ELSE IF EsCampoFecha(col) THEN DataUtilsFormatearFecha(val)
                ELSE Strip(val)]]

\* ExcelProcessor.procesar_archivo: the exception it raises, "" when it returns
ErrorDeLectura(hoja) ==
    IF hoja.legible THEN "" ELSE "Error procesando Excel: No such file or directory"

\* (datos, campos_faltantes) of ExcelProcessor.procesar_archivo
ProcesarArchivo(hoja) ==
    IF VerificarCampos(hoja.columnas) # << >>
    THEN [datos |-> << >>, campos_faltantes |-> VerificarCampos(hoja.columnas)]
    ELSE [datos |-> LeerFilas(hoja), campos_faltantes |-> << >>]

-----------------------------------------------------------------------------
(* DataTransformer and DataMapper *)

\* MAPEO_EXCEL_A_SALIDA['EXPANSION']: (normalized column, output field)
MapeoExcelASalida ==
    << << "Coordenada_X", "COORDENADA_X" >>, << "Coordenada_Y", "COORDENADA_Y" >>,
       << "Identificador", "ENLACE" >>, << "Norma", "NORMA" >>, << "UC", "UC" >>,
       << "Poblacion", "CLASIFICACION_MERCADO" >>, << "Nombre", "PROPIETARIO" >>,
       << "Altura", "CANTIDAD" >>, << "Fecha Instalacion", "FECHA_INSTALACION" >>,
       << "Fecha Operacion", "FECHA_OPERACION" >>, << "Estado Salud", "ESTADO_SALUD" >>,
       << "Nivel de Tension", "NIVEL_TENSION" >>, << "Código FID_rep", "FID_ANTERIOR" >>,
       << "Observaciones", "OBSERVACIONES" >> >>

\* ESTRUCTURAS_CAMPOS['EXPANSION']['CAMPOS_SALIDA_DATOS']
CamposSalidaDatos ==
    {"COORDENADA_X", "COORDENADA_Y", "UBICACION", "ESTADO", "CODIGO_MATERIAL",
     "FECHA_INSTALACION", "FECHA_OPERACION", "PROYECTO", "EMPRESA", "OBSERVACIONES",
     "CLASIFICACION_MERCADO", "TIPO_PROYECTO", "ID_MERCADO", "UC", "ESTADO_SALUD",
     "OT_MAXIMO", "CODIGO_MARCACION", "SALINIDAD", "FID_ANTERIOR", "GRUPO", "TIPO",
     "CLASE", "USO", "TIPO_ADECUACION", "PROPIETARIO", "PORCENTAJE_PROPIEDAD"}

\* the renamings of DataTransformer._normalizar_nombres_campos
Equivalencia(campo) ==
    CASE campo \in {"Unidad_Constructiva", "Unidad Constructiva", "Unnamed: 25",
                    "UNIDAD_CONSTRUCTIVA", "unidad_constructiva", "unidad constructiva"} -> "UC"
      [] campo = "Unnamed: 23" -> "CODIGO_INVENTARIO"
      [] campo = "Unnamed: 0" -> "COORDENADA_X"
      [] campo = "Unnamed: 1" -> "COORDENADA_Y"
      [] campo \in {"Tipo inversión", "Tipo inversion", "TIPO INVERSION", "TIPO INVERSIÓN",
                    "tipo inversion", "tipo inversión"} -> "TIPO_INVERSION_ROMANO"
      [] campo \in {"CodigoMaterial", "CODIGOMATERIAL", "codigoMaterial",
                    "codigo_material"} -> "CODIGO_MATERIAL"
      [] OTHER -> campo

\* DataTransformer._normalizar_nombres_campos (the sheets of the model have no two
\* columns with one normalized name)
NormalizarNombresCampos(registro) ==
    [c \in {Equivalencia(k) : k \in DOMAIN registro} |->
        registro[CHOOSE k \in DOMAIN registro : Equivalencia(k) = c]]

\* the body of the loop of DataTransformer.transformar_datos up to the classification:
\* the record that clasificar_estructura receives
MapearRegistro(registro_excel) ==
    LET registro_normalizado == NormalizarNombresCampos(registro_excel)
        salidas == {MapeoExcelASalida[i][2] : i \in 1..Len(MapeoExcelASalida)}
        origen(campo_salida) ==
            MapeoExcelASalida[CHOOSE i \in 1..Len(MapeoExcelASalida) :
                                MapeoExcelASalida[i][2] = campo_salida][1]
        mapeado ==
            [campo_salida \in salidas |->
                LET valor == Get(registro_normalizado, origen(campo_salida))
                IN  IF campo_salida \in {"FECHA_INSTALACION", "FECHA_OPERACION"} /\ valor # ""
                    THEN DataUtilsFormatearFecha(valor)
                    ELSE valor]
        con_material ==
            IF "CODIGO_MATERIAL" \in DOMAIN registro_normalizado
            THEN Update(mapeado,
                    [CODIGO_MATERIAL |->
                        NormalizarCodigoMaterial(registro_normalizado["CODIGO_MATERIAL"]),
                     _CODIGO_MATERIAL_FROM_EXCEL |-> "True"])
            ELSE Put(mapeado, "_CODIGO_MATERIAL_FROM_EXCEL", "False")
        tipo_inv_excel == Get(registro_normalizado, "TIPO_INVERSION_ROMANO")
        tipo_excel_convertido == ConvertirTipoProyecto(tipo_inv_excel)
        con_tipo ==
            IF tipo_inv_excel # "" /\ tipo_excel_convertido # ""
            THEN Update(con_material, [TIPO_PROYECTO |-> tipo_excel_convertido,
                                       _TIPO_PROYECTO_EXCEL |-> tipo_excel_convertido])
            ELSE con_material
        completo ==
            [c \in (DOMAIN con_tipo) \cup CamposSalidaDatos |->
                IF c \in DOMAIN con_tipo THEN con_tipo[c] ELSE ""]
    IN  completo

\* the body of the loop of DataTransformer.transformar_datos for the row at index idx (from 0)
TransformarRegistro(registro_excel, idx, ahora) ==
    Unico({Update(clasificado, [EMPRESA |-> Get(clasificado, "PROPIETARIO"),
                                _row_index |-> ToString(idx)]) :
            clasificado \in {ClasificarEstructura(registro_salida, ahora) :
                                registro_salida \in {MapearRegistro(registro_excel)}}})

\* DataTransformer.transformar_datos
TransformarDatos(datos, ahora) ==
    [i \in 1..Len(datos) |-> TransformarRegistro(datos[i], i - 1, ahora)]

\* DataMapper._calcular_cantidad
CalcularCantidad(registro) ==
    IF Get(registro, "CANTIDAD") # "" /\ ParseFloat(registro["CANTIDAD"]).ok
    THEN EnteroDe(ParseFloat(registro["CANTIDAD"]))
    ELSE "1"

\* DataMapper.mapear_a_norma, tipo_estructura = 'EXPANSION'
MapearANorma(datos, circuito) ==
    [i \in 1..Len(datos) |->
        LET registro == datos[i]
        IN  [ENLACE |-> Get(registro, "ENLACE"),
             NORMA |-> Get(registro, "NORMA"),
             CIRCUITO |-> circuito,
             CODIGO_TRAFO |-> Get(registro, "CODIGO_TRAFO"),
             CANTIDAD |-> CalcularCantidad(registro),
             FECHA_INSTALACION |-> Get(registro, "FECHA_INSTALACION"),
             TIPO_ADECUACION |-> Get(registro, "TIPO_ADECUACION"),
             OBSERVACIONES |-> Get(registro, "OBSERVACIONES"),
             UC |-> Get(registro, "UC"),
             ESTADO_SALUD |-> Get(registro, "ESTADO_SALUD"),
             NIVEL_TENSION |-> Get(registro, "NIVEL_TENSION"),
             GRUPO |-> "NODO ELECTRICO"]]

-----------------------------------------------------------------------------
(* The process: procesar_estructura_completo and a further classification pass *)

HojaVacia == [legible |-> TRUE, columnas |-> {}, filas |-> << >>]
NingunaLlamada == [op |-> "", excepcion |-> ""]

\* an entry of proceso.errores that is a str
ErrorTexto(mensaje) == [texto |-> mensaje]

\* procesar_estructura_completo
ProcesarEstructuraCompleto ==
    /\ estado = "INICIADO"
    /\ \E error \in {ErrorDeLectura(excel)}, leido \in {ProcesarArchivo(excel)} :
       \E datos_transformados \in {TransformarDatos(leido.datos, reloj)} :
       \E norma \in {MapearANorma(datos_transformados, "")} :
           IF error # ""
           THEN /\ estado' = "ERROR"
                /\ errores' = << ErrorTexto(error) >>
                /\ llamada' = [op |-> "procesar_estructura_completo", excepcion |-> error]
                /\ UNCHANGED << datos_excel, datos_norma >>
           ELSE IF leido.campos_faltantes # << >>
           THEN /\ estado' = "ERROR"
                /\ errores' = << ErrorTexto("Campos faltantes en Excel: "
                                            \o Join(leido.campos_faltantes, ", ")) >>
                /\ llamada' = [op |-> "procesar_estructura_completo", excepcion |-> ""]
                /\ UNCHANGED << datos_excel, datos_norma >>
           ELSE /\ datos_excel' = datos_transformados
                /\ datos_norma' = [i \in 1..Len(norma) |-> ClasificarEstructura(norma[i], reloj)]
                /\ estado' = "COMPLETANDO_DATOS"
                /\ llamada' = [op |-> "procesar_estructura_completo", excepcion |-> ""]
                /\ UNCHANGED errores
    /\ UNCHANGED << excel, archivos, reloj, reclasificado, fecha, formateada,
                    hoja_norma, bd, respuesta >>

\* a classification pass that writes a fixed field only where the record has none
ClasificarLoteSinForzar ==
    /\ estado = "COMPLETANDO_DATOS"
    /\ datos_excel # << >>
    /\ reclasificado' =
          [i \in 1..Len(datos_excel) |->
              LET clasificado == ClasificarEstructura(datos_excel[i], reloj)
              IN  [c \in DOMAIN clasificado |->
                      IF /\ c \in {"GRUPO", "CLASE", "USO", "PORCENTAJE_PROPIEDAD"}
                         /\ Get(datos_excel[i], c) # ""
                      THEN datos_excel[i][c] ELSE clasificado[c]]]
    /\ UNCHANGED << excel, estado, errores, datos_excel, datos_norma,
                    archivos, llamada, reloj, fecha, formateada,
                    hoja_norma, bd, respuesta >>

\* ClasificadorEstructuras.clasificar_lote over the transformed records
ClasificarLote ==
    /\ estado = "COMPLETANDO_DATOS"
    /\ datos_excel # << >>
    /\ reclasificado' = [i \in 1..Len(datos_excel) |-> ClasificarEstructura(datos_excel[i], reloj)]
    /\ UNCHANGED << excel, estado, errores, datos_excel, datos_norma,
                    archivos, llamada, reloj, fecha, formateada,
                    hoja_norma, bd, respuesta >>

\* the clock advances
Tic ==
    /\ reloj < MaxReloj
    /\ reloj' = reloj + 1
    /\ UNCHANGED << excel, estado, errores, datos_excel, datos_norma,
                    archivos, llamada, reclasificado, fecha, formateada,
                    hoja_norma, bd, respuesta >>

-----------------------------------------------------------------------------
(* GeneradorBase and FileManager: the coordinated generation of the NEW file *)

\* valor_str.split(): the words between runs of white space
RECURSIVE Palabras(_)
Palabras(s) ==
    LET t == LStrip(s)
    IN  IF t = "" THEN << >>
        ELSE LET fin == IF \E i \in 1..Len(t) : Ch(t, i) \in Blancos
                        THEN CHOOSE i \in 1..Len(t) :
                                /\ Ch(t, i) \in Blancos
                                /\ \A j \in 1..(i - 1) : Ch(t, j) \notin Blancos
                        ELSE Len(t) + 1
             IN  << SubSeq(t, 1, fin - 1) >> \o Palabras(SubSeq(t, fin, Len(t)))

\* the replacements of limpiar_valor_para_archivo, half of the string at a time
RECURSIVE SinProblematicos(_)
SinProblematicos(s) ==
    IF \A i \in 1..Len(s) : Ch(s, i) \notin {"\n", "\r", "\t", "|", ";"} THEN s
    ELSE IF Len(s) = 1 THEN " "
    ELSE SinProblematicos(SubSeq(s, 1, Len(s) \div 2))
         \o SinProblematicos(SubSeq(s, Len(s) \div 2 + 1, Len(s)))

\* ' '.join(valor_str.split()): a string whose only white space is single blanks
\* between words is left as it is
ColapsarBlancos(s) ==
    IF /\ \A i \in 1..Len(s) : Ch(s, i) \notin (Blancos \ {" "})
       /\ ~Contains(s, "  ")
       /\ (Len(s) > 0 => Ch(s, 1) # " " /\ Ch(s, Len(s)) # " ")
    THEN s
    ELSE Join(Palabras(s), " ")

\* GeneradorBase.limpiar_valor_para_archivo ('nan' and 'none' have at most four letters)
LimpiarValorParaArchivo(valor) ==
    LET valor_str == Strip(valor)
    IN  IF Len(valor_str) <= 4 /\ Lower(valor_str) \in {"nan", "none", ""} THEN ""
        ELSE ColapsarBlancos(SinProblematicos(valor_str))

\* GeneradorBase.formatear_coordenada
FormatearCoordenada(valor) ==
    IF valor = "" \/ Lower(Strip(valor)) \in {"nan", "none", ""} THEN "0.000000"
    ELSE IF ParseFloat(Replace(valor, ",", ".")).ok
         THEN Formato6(ParseFloat(Replace(valor, ",", ".")))
         ELSE "0.000000"

\* GeneradorBase.limpiar_fid
LimpiarFid(valor) ==
    LET vs == Strip(valor)
    IN  IF Lower(vs) \in {"", "nan", "none"} THEN ""
        ELSE IF Len(vs) >= 2 /\ SubSeq(vs, Len(vs) - 1, Len(vs)) = ".0" /\ ParseFloat(vs).ok
             THEN EnteroDe(ParseFloat(vs))
             ELSE vs

\* FileManager._indices_con_fid_rep_exactos: the indices (from 0) of the raw rows with a
\* value in the first of the exact headers that the row has
IndicesConFidRepExactos(raw_datos) ==
    LET variantes == << "Código FID_rep", "Codigo FID_rep", "CODIGO_FID_REP", "codigo_fid_rep" >>
        tiene(reg) ==
            /\ \E j \in 1..4 : variantes[j] \in DOMAIN reg
            /\ LET k == variantes[CHOOSE j \in 1..4 :
                                    /\ variantes[j] \in DOMAIN reg
                                    /\ \A h \in 1..(j - 1) : variantes[h] \notin DOMAIN reg]
               IN  Strip(reg[k]) # "" /\ Lower(Strip(reg[k])) \notin {"nan", "none"}
    IN  {i - 1 : i \in {j \in 1..Len(raw_datos) : tiene(raw_datos[j])}}

\* FileManager._get_datos_completos when proceso.datos_excel is not empty
\* (proceso.circuito and proceso.propietario_definido are not set)
GetDatosCompletos(excel_transformado, norma) ==
    LET campos_procesados == {"TIPO", "CLASE", "USO", "PROPIETARIO", "PORCENTAJE_PROPIEDAD",
                              "FECHA_OPERACION", "CODIGO_MATERIAL", "FECHA_INSTALACION",
                              "ESTADO_SALUD"}
        combinado(i) ==
            LET registro_excel == excel_transformado[i]
                registro_norma == norma[i]
                r1 == [c \in (DOMAIN registro_excel)
                              \cup (campos_procesados \cap DOMAIN registro_norma) |->
                        IF c \in campos_procesados \cap DOMAIN registro_norma
                        THEN registro_norma[c] ELSE registro_excel[c]]
            IN  IF Get(registro_excel, "TIPO_PROYECTO") # ""
                THEN Put(r1, "TIPO_PROYECTO", registro_excel["TIPO_PROYECTO"])
                ELSE IF Get(registro_norma, "TIPO_PROYECTO") # ""
                     THEN Put(r1, "TIPO_PROYECTO", registro_norma["TIPO_PROYECTO"])
                     ELSE r1
        porDefecto(registro) ==
            [c \in (DOMAIN registro) \cup {"TIPO", "CLASE", "USO", "PORCENTAJE_PROPIEDAD"} |->
                IF Get(registro, c) # "" THEN registro[c]
                ELSE CASE c = "TIPO" -> "SECUNDARIO"
                       [] c = "CLASE" -> "POSTE"
                       [] c = "USO" -> "DISTRIBUCION ENERGIA"
                       [] c = "PORCENTAJE_PROPIEDAD" -> "100"
                       [] OTHER -> registro[c]]
    IN  IF norma # << >>
        THEN [i \in 1..Len(excel_transformado) |->
                IF i <= Len(norma) THEN combinado(i) ELSE excel_transformado[i]]
        ELSE [i \in 1..Len(excel_transformado) |-> porDefecto(excel_transformado[i])]

\* campos_criticos of FileManager._preparar_datos_finales
CamposCriticos ==
    [c \in {"COORDENADA_X", "COORDENADA_Y", "GRUPO", "TIPO", "CLASE", "USO", "ESTADO",
            "PROPIETARIO", "PORCENTAJE_PROPIEDAD", "TIPO_PROYECTO", "FECHA_INSTALACION",
            "FECHA_OPERACION", "ID_MERCADO", "SALINIDAD", "EMPRESA"} |->
        CASE c \in {"COORDENADA_X", "COORDENADA_Y"} -> "0.000000"
          [] c = "GRUPO" -> "ESTRUCTURAS EYT"
          [] c = "TIPO" -> "SECUNDARIO"
          [] c = "CLASE" -> "POSTE"
          [] c = "USO" -> "DISTRIBUCION ENERGIA"
          [] c = "ESTADO" -> "ACTIVO"
          [] c = "PROPIETARIO" -> "SIN_PROPIETARIO"
          [] c = "PORCENTAJE_PROPIEDAD" -> "100"
          [] c = "TIPO_PROYECTO" -> "EXPANSION"
          [] c \in {"FECHA_INSTALACION", "FECHA_OPERACION"} -> "01/01/1900"
          [] c = "ID_MERCADO" -> "161"
          [] c = "SALINIDAD" -> "NO"
          [] c = "EMPRESA" -> "CENS"]

\* the body of the loop of FileManager._preparar_datos_finales
PrepararRegistroFinal(registro) ==
    LET registro_limpio == [c \in DOMAIN registro |-> LimpiarValorParaArchivo(registro[c])]
        con_defectos ==
            [c \in (DOMAIN registro_limpio) \cup (DOMAIN CamposCriticos) |->
                IF c \in DOMAIN CamposCriticos /\ Strip(Get(registro_limpio, c)) = ""
                THEN CamposCriticos[c] ELSE registro_limpio[c]]
    IN  [c \in DOMAIN con_defectos |->
            IF c \in {"COORDENADA_X", "COORDENADA_Y"} THEN FormatearCoordenada(con_defectos[c])
            ELSE IF c \in {"FECHA_INSTALACION", "FECHA_OPERACION"}
                 THEN GeneradorBaseFormatearFecha(con_defectos[c])
                 ELSE con_defectos[c]]

\* FileManager._preparar_datos_finales
PrepararDatosFinales(datos_completos) ==
    [i \in 1..Len(datos_completos) |-> PrepararRegistroFinal(datos_completos[i])]

\* FileManager._get_encabezados_txt('estructuras_nuevo')
EncabezadosNuevo ==
    << "COORDENADA_X", "COORDENADA_Y", "UBICACION", "ESTADO", "CODIGO_MATERIAL",
       "FECHA_INSTALACION", "FECHA_OPERACION", "PROYECTO", "EMPRESA", "OBSERVACIONES",
       "CLASIFICACION_MERCADO", "TIPO_PROYECTO", "ID_MERCADO", "UC", "ESTADO_SALUD",
       "OT_MAXIMO", "CODIGO_MARCACION", "SALINIDAD", "FID_ANTERIOR", "GRUPO", "TIPO",
       "CLASE", "USO", "TIPO_ADECUACION", "PROPIETARIO", "PORCENTAJE_PROPIEDAD" >>

-----------------------------------------------------------------------------
(* ValidacionesDatos and the validations of FileManager *)

\* ValidacionesDatos._agregar_error and FileManager._add_err
ErrorFila(fila, descripcion) ==
    [archivo |-> "Excel", hoja |-> "Estructuras_N1-N2-N3", fila |-> fila,
     descripcion |-> descripcion]

\* ValidacionesDatos.validar_coordenadas
ValidarCoordenadas(registro, fila_excel) ==
    LET coord_x == Get(registro, "COORDENADA_X")
        coord_y == Get(registro, "COORDENADA_Y")
        x_val == ParseFloat(coord_x)
        y_val == ParseFloat(coord_y)
        en_x == IF Strip(coord_x) = "" THEN << >>
                ELSE IF ~x_val.ok
                THEN << ErrorFila(fila_excel,
                          "La coordenada X no tiene un formato numérico válido en la fila "
                          \o ToString(fila_excel) \o ". Valor: " \o coord_x) >>
                ELSE IF ~x_val.neg \/ EsCero(x_val)
                THEN << ErrorFila(fila_excel,
                          "La coordenada X (longitud) debe ser negativa en la fila "
                          \o ToString(fila_excel) \o ". Valor actual: " \o coord_x) >>
                ELSE << >>
        en_y == IF Strip(coord_y) = "" THEN << >>
                ELSE IF ~y_val.ok
                THEN << ErrorFila(fila_excel,
                          "La coordenada Y no tiene un formato numérico válido en la fila "
                          \o ToString(fila_excel) \o ". Valor: " \o coord_y) >>
                ELSE IF y_val.neg /\ ~EsCero(y_val)
                THEN << ErrorFila(fila_excel,
                          "La coordenada Y (latitud) debe ser positiva en la fila "
                          \o ToString(fila_excel) \o ". Valor actual: " \o coord_y) >>
                ELSE << >>
    IN  en_x \o en_y

\* a check of the year that takes int(text) without going through float
ValidarAnioSoloDigitos(registro_excel, fila_excel, tiene_fid_rep) ==
    LET anio_entrada == Strip(Get(registro_excel, "Año entrada operación_rep"))
    IN  IF ~tiene_fid_rep THEN << >>
        ELSE IF anio_entrada = "" \/ Lower(anio_entrada) \in {"nan", "none"}
        THEN << ErrorFila(fila_excel,
                  "El campo 'Año entrada operación' es obligatorio para registros de desmantelado/reposición en la fila "
                  \o ToString(fila_excel)) >>
        ELSE IF ~AllDigits(anio_entrada)
        THEN << ErrorFila(fila_excel,
                  "El año de entrada operación debe tener formato numérico válido en la fila "
                  \o ToString(fila_excel) \o ". Valor: " \o anio_entrada) >>
        ELSE IF StrToNat(anio_entrada) < 1900 \/ StrToNat(anio_entrada) > 2024
        THEN << ErrorFila(fila_excel,
                  "El año de entrada operación debe estar entre 1900 y 2024 en la fila "
                  \o ToString(fila_excel) \o ". Valor: " \o anio_entrada) >>
        ELSE << >>

\* ValidacionesDatos.validar_año_entrada_operacion
ValidarAnioEntradaOperacion(registro_excel, fila_excel, tiene_fid_rep) ==
    LET campos_posibles == << "Año entrada operación_rep", "año entrada operación_rep",
                              "AÑO_ENTRADA_OPERACION_REP" >>
        hallados == {j \in 1..3 : Get(registro_excel, campos_posibles[j]) # ""}
        anio_entrada ==
            IF hallados = {} THEN ""
            ELSE Strip(registro_excel[campos_posibles[
                        CHOOSE j \in hallados : \A h \in hallados : j <= h]])
        anio_float == ParseFloat(anio_entrada)
        EsEntero(f) == \A i \in 1..Len(f.frac) : Ch(f.frac, i) = "0"
        anio_int == IF anio_float.neg THEN 0 - anio_float.ent ELSE anio_float.ent
    IN  IF ~tiene_fid_rep THEN << >>
        ELSE IF anio_entrada = "" \/ Lower(anio_entrada) \in {"nan", "none"}
        THEN << ErrorFila(fila_excel,
                  "El campo 'Año entrada operación' es obligatorio para registros de desmantelado/reposición en la fila "
                  \o ToString(fila_excel)) >>
        ELSE IF ~anio_float.ok
        THEN << ErrorFila(fila_excel,
                  "El año de entrada operación debe tener formato numérico válido en la fila "
                  \o ToString(fila_excel) \o ". Valor: " \o anio_entrada) >>
        ELSE IF ~EsEntero(anio_float)
        THEN << ErrorFila(fila_excel,
                  "El año de entrada operación debe ser un número entero en la fila "
                  \o ToString(fila_excel) \o ". Valor: " \o anio_entrada) >>
        ELSE IF anio_int < 1900 \/ anio_int > 2024
        THEN << ErrorFila(fila_excel,
                  "El año de entrada operación debe estar entre 1900 y 2024 en la fila "
                  \o ToString(fila_excel) \o ". Valor: " \o EnteroDe(anio_float)) >>
        ELSE << >>

\* ValidacionesDatos.validar_codigo_material
ValidarCodigoMaterial(registro, fila_excel) ==
    LET codigo_material == Get(registro, "CODIGO_MATERIAL")
    IN  IF Strip(codigo_material) # "" /\ ~ParseFloat(codigo_material).ok
        THEN << ErrorFila(fila_excel,
                  "El valor '" \o codigo_material \o "' en Código Material no es un número en la fila "
                  \o ToString(fila_excel) \o " de la hoja 'Estructuras_N1-N2-N3' del Excel.") >>
        ELSE << >>

\* ValidacionesDatos.ejecutar_validaciones_datos from the record at position i on
\* (validar_ubicacion_y_nombre returns at once)
RECURSIVE EjecutarValidacionesDatos(_, _, _, _)
EjecutarValidacionesDatos(datos_finales, raw_datos_excel, indices_con_fid_rep, i) ==
    IF i > Len(datos_finales) THEN << >>
    ELSE LET idx_excel == i - 1
             fila_excel == idx_excel + 2
             registro_excel == IF i <= Len(raw_datos_excel) THEN raw_datos_excel[i]
                               ELSE EmptyDict
         IN  ValidarCoordenadas(datos_finales[i], fila_excel)
             \o ValidarAnioEntradaOperacion(registro_excel, fila_excel,
                                            idx_excel \in indices_con_fid_rep)
             \o ValidarCodigoMaterial(datos_finales[i], fila_excel)
             \o EjecutarValidacionesDatos(datos_finales, raw_datos_excel,
                                          indices_con_fid_rep, i + 1)

\* the ENLACE found for the record at position i by FileManager._validaciones_txt_especificas
EnlaceRaw(datos_finales, raw_datos_excel, i) ==
    LET literales == << "Identificador", "ENLACE", "Enlace" >>
        raw_row == IF i <= Len(raw_datos_excel) THEN raw_datos_excel[i] ELSE EmptyDict
        hallados == {j \in 1..3 : Get(raw_row, literales[j]) # ""}
        del_excel == IF hallados = {} THEN ""
                     ELSE Strip(raw_row[literales[
                            CHOOSE j \in hallados : \A h \in hallados : j <= h]])
    IN  IF del_excel # "" THEN del_excel ELSE Strip(Get(datos_finales[i], "ENLACE"))

\* a first loop that does not remember the links it has seen
RECURSIVE ValidarEnlacesSinVistos(_, _, _, _)
ValidarEnlacesSinVistos(datos_finales, raw_datos_excel, vistos, i) ==
    IF i > Len(datos_finales) THEN [errores |-> << >>, registros |-> << >>]
    ELSE LET fila_excel == (i - 1) + 2
             enlace_raw == EnlaceRaw(datos_finales, raw_datos_excel, i)
             error ==
                IF enlace_raw = ""
                THEN "el Enlace/Identificador de la linea " \o ToString(fila_excel)
                     \o " se encuentra vacio, por favor corrijalo para hacer el cargue masivo"
                ELSE IF ~StartsWith(enlace_raw, "P")
                THEN "el Enlace/Identificador de la linea " \o ToString(fila_excel)
                     \o " debe empezar por P"
                ELSE ""
             resto == ValidarEnlacesSinVistos(datos_finales, raw_datos_excel, vistos, i + 1)
         IN  [errores |-> (IF error = "" THEN << >> ELSE << ErrorFila(fila_excel, error) >>)
                          \o resto.errores,
              registros |-> << IF error = "" THEN Put(datos_finales[i], "ENLACE", enlace_raw)
                               ELSE datos_finales[i] >> \o resto.registros]

\* the first loop of FileManager._validaciones_txt_especificas from position i on;
\* vistos maps each accepted ENLACE to its row
RECURSIVE ValidarEnlaces(_, _, _, _)
ValidarEnlaces(datos_finales, raw_datos_excel, vistos, i) ==
    IF i > Len(datos_finales) THEN [errores |-> << >>, registros |-> << >>]
    ELSE LET fila_excel == (i - 1) + 2
             enlace_raw == EnlaceRaw(datos_finales, raw_datos_excel, i)
             error ==
                IF enlace_raw = ""
                THEN "el Enlace/Identificador de la linea " \o ToString(fila_excel)
                     \o " se encuentra vacio, por favor corrijalo para hacer el cargue masivo"
                ELSE IF ~StartsWith(enlace_raw, "P")
                THEN "el Enlace/Identificador de la linea " \o ToString(fila_excel)
                     \o " debe empezar por P"
                ELSE IF enlace_raw \in DOMAIN vistos
                THEN "no pueden haber dos enlaces/identificadores iguales: fila "
                     \o ToString(vistos[enlace_raw]) \o " y fila " \o ToString(fila_excel)
                     \o " con '" \o enlace_raw \o "'"
                ELSE ""
             resto == ValidarEnlaces(datos_finales, raw_datos_excel,
                                     IF error = "" THEN Put(vistos, enlace_raw, fila_excel)
                                     ELSE vistos, i + 1)
         IN  [errores |-> (IF error = "" THEN << >> ELSE << ErrorFila(fila_excel, error) >>)
                          \o resto.errores,
              registros |-> << IF error = "" THEN Put(datos_finales[i], "ENLACE", enlace_raw)
                               ELSE datos_finales[i] >> \o resto.registros]

\* the second loop of FileManager._validaciones_txt_especificas from position i on
RECURSIVE ValidarUcs(_, _)
ValidarUcs(datos_finales, i) ==
    IF i > Len(datos_finales) THEN << >>
    ELSE LET fila_excel == (i - 1) + 2
             uc_raw == Strip(Get(datos_finales[i], "UC"))
         IN  (IF uc_raw = ""
              THEN << ErrorFila(fila_excel, "la Unidad Constructiva de la linea "
                        \o ToString(fila_excel)
                        \o " se encuentra vacia, por favor corrijala para hacer el cargue masivo") >>
              ELSE IF ~StartsWith(uc_raw, "N")
              THEN << ErrorFila(fila_excel, "la Unidad Constructiva de la linea "
                        \o ToString(fila_excel) \o " debe empezar por N") >>
              ELSE << >>)
             \o ValidarUcs(datos_finales, i + 1)

\* FileManager.ejecutar_validaciones_integradas: the errors it returns and the records
\* as its loops leave them; the accumulated errors are returned twice
EjecutarValidacionesIntegradas(datos_finales, raw_datos_excel, indices_con_fid_rep) ==
    LET errores_datos == EjecutarValidacionesDatos(datos_finales, raw_datos_excel,
                                                   indices_con_fid_rep, 1)
        enlaces == ValidarEnlaces(datos_finales, raw_datos_excel, EmptyDict, 1)
        errores_acumulados == enlaces.errores \o ValidarUcs(datos_finales, 1)
    IN  [errores |-> errores_datos \o errores_acumulados \o errores_acumulados,
         registros |-> enlaces.registros]

-----------------------------------------------------------------------------
(* TXTEstructurasGenerator: the NEW and DECOMMISSION files of the structures *)

\* GeneradorBase.extraer_fid_rep: the first explicit key with a clean value, else the
\* value of a key whose normalised name contains 'fid'
ExtraerFidRep(registro) ==
    LET explicit_keys == << "Código FID_rep", "Codigo FID_rep", "CODIGO_FID_REP",
                            "codigo_fid_rep", "FID_ANTERIOR", "FID" >>
        con_valor == {j \in 1..6 : /\ explicit_keys[j] \in DOMAIN registro
                                   /\ LimpiarFid(registro[explicit_keys[j]]) # ""}
        parecidas == {k \in DOMAIN registro :
                        /\ Contains(Replace(Replace(Lower(k), " ", "_"), "-", "_"), "fid")
                        /\ LimpiarFid(registro[k]) # ""}
    IN  IF con_valor # {}
        THEN LimpiarFid(registro[explicit_keys[
                CHOOSE j \in con_valor : \A h \in con_valor : j <= h]])
        ELSE IF parecidas # {}
        THEN LimpiarFid(registro[CHOOSE k \in parecidas : TRUE])
        ELSE ""

\* DataUtils.limpiar_valor_para_txt for a value of at most 255 characters
LimpiarValorParaTxt(valor) ==
    LET valor_str == Strip(Replace(Replace(Replace(valor, "\n", " "), "\r", " "), "|", "-"))
    IN  IF valor_str = "" \/ Lower(valor_str) \in {"nan", "none", "null"} THEN ""
        ELSE valor_str

\* DataUtils.VALORES_DEFECTO
ValoresDefecto ==
    [c \in {"GRUPO", "TIPO", "CLASE", "USO", "PORCENTAJE_PROPIEDAD", "TIPO_PROYECTO",
            "FECHA_DEFAULT", "ESTADO_DEFAULT", "ID_MERCADO", "SALINIDAD"} |->
        CASE c = "GRUPO" -> "ESTRUCTURAS EYT"
          [] c = "TIPO" -> "PRIMARIO"
          [] c = "CLASE" -> "POSTE"
          [] c = "USO" -> "DISTRIBUCION ENERGIA"
          [] c = "PORCENTAJE_PROPIEDAD" -> "100"
          [] c = "TIPO_PROYECTO" -> "T2"
          [] c = "FECHA_DEFAULT" -> "01/01/2000"
          [] c = "ESTADO_DEFAULT" -> "OPERACION"
          [] c = "ID_MERCADO" -> "161"
          [] c = "SALINIDAD" -> "NO"]

\* FileGenerator._validar_campos_criticos
ValidarCamposCriticos(registro) ==
    LET campos_criticos ==
            [c \in {"COORDENADA_X", "COORDENADA_Y", "LONGITUD", "LATITUD", "GRUPO", "TIPO",
                    "CLASE", "USO", "ESTADO", "PROPIETARIO", "PORCENTAJE_PROPIEDAD",
                    "TIPO_PROYECTO", "FECHA_INSTALACION", "FECHA_OPERACION"} |->
                CASE c \in {"COORDENADA_X", "COORDENADA_Y", "LONGITUD", "LATITUD"} -> "0"
                  [] c \in {"GRUPO", "TIPO", "PORCENTAJE_PROPIEDAD", "TIPO_PROYECTO"} ->
                        ValoresDefecto[c]
                  [] c = "CLASE" -> "SIN_CLASE"
                  [] c = "USO" -> "SIN_USO"
                  [] c = "ESTADO" -> "ACTIVO"
                  [] c = "PROPIETARIO" -> "SIN_PROPIETARIO"
                  [] c \in {"FECHA_INSTALACION", "FECHA_OPERACION"} ->
                        ValoresDefecto["FECHA_DEFAULT"]]
    IN  [c \in (DOMAIN registro) \cup (DOMAIN campos_criticos) |->
            IF c \in DOMAIN campos_criticos /\ Strip(Get(registro, c)) = ""
            THEN campos_criticos[c] ELSE registro[c]]

\* s.rstrip(ch)
RECURSIVE RStripCh(_, _)
RStripCh(s, ch) ==
    IF Len(s) > 0 /\ Ch(s, Len(s)) = ch THEN RStripCh(SubSeq(s, 1, Len(s) - 1), ch) ELSE s

\* FileGenerator._validar_tipos_datos
ValidarTiposDatos(registro) ==
    LET decimales == {"COORDENADA_X", "COORDENADA_Y", "LONGITUD", "LATITUD"}
        enteros == {"PORCENTAJE_PROPIEDAD", "CANTIDAD"}
        numero(c) == ParseFloat(Replace(registro[c], ",", "."))
    IN  [c \in DOMAIN registro |->
            IF registro[c] = "" THEN ""
            ELSE IF c \in decimales
            THEN IF numero(c).ok THEN RStripCh(RStripCh(Formato6(numero(c)), "0"), ".")
                 ELSE "0.0"
            ELSE IF c \in enteros
            THEN IF numero(c).ok THEN EnteroDe(numero(c)) ELSE "0"
            ELSE IF c \in {"FECHA_INSTALACION", "FECHA_OPERACION"}
            THEN DataUtilsFormatearFecha(registro[c])
            ELSE registro[c]]

\* TXTEstructurasGenerator._preparar_datos_finales for one record
\* (proceso.estado_salud_definido is not set)
TxtPrepararRegistro(registro) ==
    Unico({[c \in DOMAIN reg |->
                IF c \in {"FECHA_INSTALACION", "FECHA_OPERACION"} /\ reg[c] # ""
                THEN TxtEstructurasFormatearFecha(reg[c]) ELSE reg[c]] :
            reg \in {ValidarTiposDatos(criticos) :
                        criticos \in {ValidarCamposCriticos(registro)}}})

\* OracleEnricher.enriquecer and enriquecer_para_baja with the lookup unavailable: the
\* records pass through with the values of the spreadsheet
Enriquecer(datos_finales) == datos_finales

\* TXTEstructurasGenerator._validar_campos_obligatorios
ValidarCamposObligatorios(datos) == << >>

\* datetime.now().strftime('%d/%m/%Y') at the tick t of the clock
Hoy(t) == Pad2(5 + t) \o "/11/2025"

\* TXTEstructurasGenerator._asignar_fechas_baja for one record
AsignarFechaBaja(registro, fecha_hoy) ==
    Put(registro, "FECHA_FUERA_OPERACION",
        IF Strip(Get(registro, "ENLACE")) # "" /\ Get(registro, "FECHA_INSTALACION") # ""
        THEN registro["FECHA_INSTALACION"] ELSE fecha_hoy)

\* TXTEstructurasGenerator._escribir_txt_baja: the headers
EncabezadosBaja == << "G3E_FID", "ESTADO", "FECHA_FUERA_OPERACION" >>

\* a written line: the index (from 0) of the input record and the values between the bars
Linea(origen, registro, encabezados) ==
    [origen |-> origen,
     valores |-> [j \in 1..Len(encabezados) |-> Get(registro, encabezados[j])]]

\* the same for the writers that pass each value through limpiar_valor_para_txt
LineaTxt(origen, registro, encabezados) ==
    [origen |-> origen,
     valores |-> [j \in 1..Len(encabezados) |->
                    LimpiarValorParaTxt(Get(registro, encabezados[j]))]]

\* the indices (from 1) of the records that generar_txt_baja keeps
ConFidRep(datos) == {i \in 1..Len(datos) : ExtraerFidRep(datos[i]) # ""}

\* a selection that gives the kept elements last first
RECURSIVE SeleccionInversa(_, _, _)
SeleccionInversa(s, de, i) ==
    IF i > Len(s) THEN << >>
    ELSE SeleccionInversa(s, de, i + 1) \o (IF i \in de THEN << s[i] >> ELSE << >>)

\* the elements of the sequence s at the positions of the set de, in order
RECURSIVE Seleccion(_, _, _)
Seleccion(s, de, i) ==
    IF i > Len(s) THEN << >>
    ELSE (IF i \in de THEN << s[i] >> ELSE << >>) \o Seleccion(s, de, i + 1)

\* the variables that no generation touches
SinCambioGeneracion ==
    UNCHANGED << excel, datos_norma, reloj, reclasificado, fecha, formateada,
                    hoja_norma, bd, respuesta >>

\* FileGenerator.generar_txt -> generar_txt_modular -> FileManager.generar_archivo_txt_coordinado;
\* disco_ok is whether the output file can be opened for writing
GenerarTxtModular ==
    /\ estado = "COMPLETANDO_DATOS"
    /\ \E lectura_ok \in {ErrorDeLectura(excel) = ""} :
       \E raw_datos_excel \in {IF lectura_ok THEN ProcesarArchivo(excel).datos ELSE << >>},
          datos_completos \in {GetDatosCompletos(datos_excel, datos_norma)} :
       \E indices_con_fid_rep \in {IndicesConFidRepExactos(IF lectura_ok THEN raw_datos_excel
                                                            ELSE datos_excel)},
          datos_finales \in {PrepararDatosFinales(datos_completos)} :
       \E validacion \in {EjecutarValidacionesIntegradas(datos_finales, raw_datos_excel,
                                                         indices_con_fid_rep)} :
       \E disco_ok \in BOOLEAN :
        LET Falla(msg) ==
                llamada' = [op |-> "generar_txt_modular",
                            excepcion |-> "error generando archivo TXT : " \o msg]
        IN  IF datos_excel = << >>
            THEN /\ Falla("No hay datos originales del Excel")
                 /\ UNCHANGED << estado, errores, archivos >>
            ELSE IF validacion.errores # << >>
            THEN /\ errores' = validacion.errores
                 /\ estado' = "ERROR"
                 /\ Falla("VALIDATION_ERRORS")
                 /\ UNCHANGED archivos
            ELSE IF ~disco_ok
            THEN /\ Falla("[Errno 13] Permission denied")
                 /\ UNCHANGED << estado, errores, archivos >>
            ELSE /\ archivos' = Put(archivos, "estructuras_nuevo",
                        [encabezados |-> EncabezadosNuevo,
                         filas |-> [i \in 1..Len(datos_finales) |->
                                      Linea(i - 1, validacion.registros[i], EncabezadosNuevo)]])
                 /\ llamada' = [op |-> "generar_txt_modular", excepcion |-> ""]
                 /\ UNCHANGED << estado, errores >>
    /\ UNCHANGED datos_excel
    /\ SinCambioGeneracion

\* FileGenerator._generar_estructuras: TXTEstructurasGenerator.generar_txt, whose exception
\* goes on to the caller, and then generar_txt_baja
GenerarEstructuras ==
    /\ estado = "COMPLETANDO_DATOS"
    /\ \E datos_finales \in {[i \in 1..Len(datos_excel) |-> TxtPrepararRegistro(datos_excel[i])]},
          con_fid_rep \in {ConFidRep(datos_excel)} :
       \E datos_enriquecidos \in {Enriquecer(datos_finales)} :
       \E validacion \in {ValidarCamposObligatorios(datos_enriquecidos)} :
       \E disco_ok \in BOOLEAN :
        LET marcados == [i \in 1..Len(datos_excel) |->
                            IF i \in con_fid_rep
                            THEN Put(datos_excel[i], "__indice_original__", ToString(i - 1))
                            ELSE datos_excel[i]]
            DeBaja(i) ==
                Unico({Put(AsignarFechaBaja(con_fid, Hoy(reloj)), "ESTADO", "RETIRADO") :
                        con_fid \in {Enriquecer(<< TxtPrepararRegistro(marcados[i]) >>)[1]}})
            nuevo == [encabezados |-> EncabezadosNuevo,
                      filas |-> [i \in 1..Len(datos_excel) |->
                                    LineaTxt(i - 1, datos_enriquecidos[i], EncabezadosNuevo)]]
            baja == IF con_fid_rep = {}
                    THEN [encabezados |-> << "# No hay registros de estructuras BAJA" >>,
                          filas |-> << >>]
                    ELSE [encabezados |-> EncabezadosBaja,
                          filas |-> Seleccion([i \in 1..Len(datos_excel) |->
                                                LineaTxt(i - 1, DeBaja(i), EncabezadosBaja)],
                                              con_fid_rep, 1)]
            Falla(msg) ==
                llamada' = [op |-> "_generar_estructuras",
                            excepcion |-> "Error generando archivo TXT: " \o msg]
        IN  IF datos_excel = << >>
            THEN /\ Falla("No hay datos del Excel para procesar")
                 /\ UNCHANGED << estado, errores, archivos, datos_excel >>
            ELSE IF validacion # << >>
            THEN /\ errores' = validacion
                 /\ estado' = "ERROR"
                 /\ Falla("VALIDATION_ERRORS")
                 /\ UNCHANGED << archivos, datos_excel >>
            ELSE IF ~disco_ok
            THEN /\ Falla("[Errno 13] Permission denied")
                 /\ UNCHANGED << estado, errores, archivos, datos_excel >>
            ELSE /\ archivos' = Put(Put(archivos, "estructuras", nuevo),
                                    "estructuras_baja", baja)
                 /\ datos_excel' = marcados
                 /\ llamada' = [op |-> "_generar_estructuras", excepcion |-> ""]
                 /\ UNCHANGED << estado, errores >>
    /\ SinCambioGeneracion

-----------------------------------------------------------------------------
(* OracleConnectionHelper and OracleRepository: the reads of the reference database *)

\* the database: settings.ORACLE_ENABLED, whether a connection can be opened, the
\* keys whose query times out, and the tables ccomun (by codigo_operativo and by
\* enlace) and norma (by g3e_fid)
SinBd ==
    [habilitado |-> FALSE, conecta |-> FALSE, caida |-> {},
     codigo_operativo |-> EmptyDict, enlace |-> EmptyDict, norma |-> EmptyDict]

\* no read of the repository has been made
NingunaRespuesta == [op |-> "", clave |-> "", valor |-> "", conexiones |-> 0]

\* OracleConnectionHelper.test_connection
TestConnection(b) == b.conecta

\* the body that the reads of OracleRepository share: what is returned, the exception
\* that leaves the method and the number of connections opened; limpio is the
\* normalised key and vacio the empty result of the read
Lectura(b, tabla, limpio, vacio) ==
    IF ~b.habilitado \/ Lower(limpio) \in {"", "nan", "none"}
    THEN [valor |-> vacio, excepcion |-> "", conexiones |-> 0]
    ELSE IF ~b.conecta \/ limpio \in b.caida
    THEN [valor |-> vacio, excepcion |-> "", conexiones |-> 1]
    ELSE [valor |-> IF limpio \in DOMAIN tabla THEN tabla[limpio] ELSE vacio,
          excepcion |-> "", conexiones |-> 1]

\* a read whose except clause re-raises
LecturaSinCaptura(b, tabla, limpio, vacio) ==
    IF ~b.habilitado \/ Lower(limpio) \in {"", "nan", "none"}
    THEN [valor |-> vacio, excepcion |-> "", conexiones |-> 0]
    ELSE IF ~b.conecta \/ limpio \in b.caida
    THEN [valor |-> vacio, excepcion |-> "DPY-4011: the database or network closed the connection",
          conexiones |-> 1]
    ELSE [valor |-> IF limpio \in DOMAIN tabla THEN tabla[limpio] ELSE vacio,
          excepcion |-> "", conexiones |-> 1]

ObtenerFidDesdeCodigoOperativoSinCaptura(b, codigo_operativo) ==
    LecturaSinCaptura(b, b.codigo_operativo, Strip(codigo_operativo), "")

\* OracleRepository.obtener_fid_desde_codigo_operativo
ObtenerFidDesdeCodigoOperativo(b, codigo_operativo) ==
    Lectura(b, b.codigo_operativo, Strip(codigo_operativo), "")

\* a read of the link that does not look at settings.ORACLE_ENABLED
ObtenerFidDesdeEnlaceSinAjuste(b, enlace) ==
    Lectura([b EXCEPT !.habilitado = TRUE], b.enlace, Upper(Strip(enlace)), "")

\* OracleRepository.obtener_fid_desde_enlace
ObtenerFidDesdeEnlace(b, enlace) ==
    Lectura(b, b.enlace, Upper(Strip(enlace)), "")

\* OracleRepository.consultar_norma_por_fid
ConsultarNormaPorFid(b, fid) ==
    Lectura(b, b.norma, Strip(fid), EmptyDict)

-----------------------------------------------------------------------------
(* TXTNormaGenerator: the file of norms *)

\* TXTNormaGenerator._consultar_norma_oracle: any exception gives {}
ConsultarNormaOracle(b, fid) ==
    IF b.conecta /\ fid \notin b.caida /\ fid \in DOMAIN b.norma
    THEN b.norma[fid] ELSE EmptyDict

\* campos_orden of _escribir_txt_norma
CamposOrden ==
    << "NORMA", "GRUPO", "CIRCUITO", "CODIGO_TRAFO", "MACRONORMA", "CANTIDAD",
       "TIPO_ADECUACION" >>

\* re.search(r"Z\s*-?\s*(\d{5,})", val_str): 'Z' and the digits of the first match,
\* '' when there is none
CodigoOperativoEn(val_str) ==
    LET Cola(i) ==
            LET resto == LStrip(SubSeq(val_str, i + 1, Len(val_str)))
            IN  IF StartsWith(resto, "-") THEN LStrip(Tail(resto)) ELSE resto
        Cifras(t) ==
            IF \E n \in 1..Len(t) : ~IsDigit(Ch(t, n))
            THEN SubSeq(t, 1, (CHOOSE n \in 1..Len(t) :
                                /\ ~IsDigit(Ch(t, n))
                                /\ \A h \in 1..(n - 1) : IsDigit(Ch(t, h))) - 1)
            ELSE t
        halla == {i \in 1..Len(val_str) : Ch(val_str, i) = "Z" /\ Len(Cifras(Cola(i))) >= 5}
    IN  IF halla = {} THEN ""
        ELSE "Z" \o Cifras(Cola(CHOOSE i \in halla : \A h \in halla : i <= h))

\* re.match(r"^P\d+$", val_str)
EsEnlace(val_str) ==
    Len(val_str) >= 2 /\ Ch(val_str, 1) = "P" /\ AllDigits(SubSeq(val_str, 2, Len(val_str)))

\* TXTNormaGenerator._detectar_bajas: link -> operative code, from the cells of the
\* structures sheet (a row of the model has at most one cell of each kind); the
\* last row of a link gives its code
DetectarBajas(hoja) ==
    LET Celdas(i) == {Upper(Strip(hoja.filas[i][c])) : c \in DOMAIN hoja.filas[i]}
        Enlace(i) == IF \E v \in Celdas(i) : EsEnlace(v)
                     THEN CHOOSE v \in Celdas(i) : EsEnlace(v) ELSE ""
        Codigo(i) == IF \E v \in Celdas(i) : CodigoOperativoEn(v) # ""
                     THEN CodigoOperativoEn(CHOOSE v \in Celdas(i) : CodigoOperativoEn(v) # "")
                     ELSE ""
        de_baja == IF hoja.legible
                   THEN {i \in 1..Len(hoja.filas) : Enlace(i) # "" /\ Codigo(i) # ""}
                   ELSE {}
    IN  [e \in {Enlace(i) : i \in de_baja} |->
            Codigo(CHOOSE i \in de_baja :
                     /\ Enlace(i) = e
                     /\ \A h \in de_baja : Enlace(h) = e => h <= i)]

\* TXTNormaGenerator._preparar_datos_norma
PrepararDatosNorma(datos) ==
    [i \in 1..Len(datos) |->
        LET reg == datos[i]
            con_grupo == IF Contains(Upper(Get(reg, "TIPO_PROYECTO")), "EXPANSION")
                         THEN Put(reg, "GRUPO", "NODO ELECTRICO") ELSE reg
            tipo_adec == Get(reg, "TIPO_ADECUACION")
        IN  IF tipo_adec = "" THEN con_grupo
            ELSE Put(con_grupo, "TIPO_ADECUACION",
                     CASE tipo_adec \in {"RETENCIÓN", "retención"} -> "RETENCION"
                       [] tipo_adec \in {"SUSPENSIÓN", "suspensión"} -> "SUSPENSION"
                       [] OTHER -> Upper(tipo_adec))]

\* TXTNormaGenerator._leer_datos_norma: the rows of the sheet of norms that have a
\* norm or a link, else proceso.datos_norma prepared (proceso.circuito is not set)
LeerDatosNorma(hoja, norma_procesada) ==
    LET Obtener(fila, keys) ==
            LET con_valor == {j \in 1..Len(keys) : /\ keys[j] \in hoja.columnas
                                                   /\ Strip(Get(fila, keys[j])) # ""}
            IN  IF con_valor = {} THEN ""
                ELSE Strip(fila[keys[CHOOSE j \in con_valor : \A h \in con_valor : j <= h]])
        Reg(fila) ==
            [ENLACE |-> Obtener(fila, << "Identificador", "ENLACE", "Pm", "PM",
                                         "Identificador PM" >>),
             NORMA |-> Obtener(fila, << "Norma", "NORMA" >>),
             GRUPO |-> Obtener(fila, << "GRUPO", "Grupo" >>),
             CIRCUITO |-> Obtener(fila, << "CIRCUITO", "Circuito" >>),
             CODIGO_TRAFO |-> Obtener(fila, << "Codigo. Transformador (1T,2T,3T,4T,5T)",
                                               "CODIGO_TRAFO", "Codigo Trafo" >>),
             MACRONORMA |-> Obtener(fila, << "MACRONORMA", "Macronorma" >>),
             CANTIDAD |-> Obtener(fila, << "Altura", "CANTIDAD" >>),
             TIPO_ADECUACION |-> Obtener(fila, << "Disposicion", "TIPO_ADECUACION" >>)]
        todos == [i \in 1..Len(hoja.filas) |-> Reg(hoja.filas[i])]
        registros == IF hoja.legible
                     THEN Seleccion(todos, {i \in 1..Len(todos) :
                                                todos[i].NORMA # "" \/ todos[i].ENLACE # ""}, 1)
                     ELSE << >>
    IN  IF registros # << >> THEN registros
        ELSE PrepararDatosNorma(norma_procesada)

\* a merge that lets an empty value of the database through
MergeBajaTodo(reg_out, datos_bd) ==
    [c \in DOMAIN reg_out |-> IF datos_bd = EmptyDict THEN reg_out[c] ELSE Strip(Get(datos_bd, c))]

\* _escribir_txt_norma, the merge of a DECOMMISSION record: the value of the
\* database has priority when it is not empty
MergeBaja(reg_out, datos_bd) ==
    [c \in DOMAIN reg_out |->
        IF Strip(Get(datos_bd, c)) # "" THEN Strip(datos_bd[c]) ELSE reg_out[c]]

\* a validation that keeps the sheet whenever the sheet has a value
MergeNuevoSoloVacios(reg_out, datos_bd) ==
    [c \in DOMAIN reg_out |->
        IF Strip(Get(datos_bd, c)) # "" /\ reg_out[c] = ""
        THEN Strip(datos_bd[c]) ELSE reg_out[c]]

\* _escribir_txt_norma, the validation of a record that is not a DECOMMISSION: the
\* value is replaced when the database has one and it differs
MergeNuevo(reg_out, datos_bd) ==
    [c \in DOMAIN reg_out |->
        IF Strip(Get(datos_bd, c)) # "" /\ reg_out[c] # Strip(datos_bd[c])
        THEN Strip(datos_bd[c]) ELSE reg_out[c]]

\* a normalisation that leaves the quantity as it came
NormalizarCantidadIntacta(val) == val

\* _escribir_txt_norma, the default and the normalisation of CANTIDAD
NormalizarCantidad(val) ==
    IF val = "" THEN "1"
    ELSE IF Contains(val, ".") /\ AllDigits(Replace(val, ".", ""))
    THEN Split(val, ".")[1]
    ELSE val

\* a record whose failed lookup leaves the loop
RegistroNormaSinCaptura(b, reg, bajas, oracle_disponible) ==
    LET reg_out == [c \in {CamposOrden[j] : j \in 1..Len(CamposOrden)} |-> Strip(Get(reg, c))]
        enlace_upper == Upper(Strip(Get(reg, "ENLACE")))
        r == IF Get(bajas, enlace_upper) # ""
             THEN ObtenerFidDesdeCodigoOperativoSinCaptura(b, Get(bajas, enlace_upper))
             ELSE LecturaSinCaptura(b, b.enlace, enlace_upper, "")
    IN  [salida |-> Put(reg_out, "CANTIDAD", NormalizarCantidad(reg_out["CANTIDAD"])),
         excepcion |-> IF oracle_disponible THEN r.excepcion ELSE ""]

\* _escribir_txt_norma, the body of the loop: the record to write, and the exception
\* that leaves the loop (none: both try blocks catch Exception)
RegistroNorma(b, reg, bajas, oracle_disponible) ==
    LET reg_out == [c \in {CamposOrden[j] : j \in 1..Len(CamposOrden)} |-> Strip(Get(reg, c))]
        enlace_upper == Upper(Strip(Get(reg, "ENLACE")))
        codigo_op == Get(bajas, enlace_upper)
        Con(fid, Merge(_, _)) ==
            IF fid.excepcion # "" \/ fid.valor = "" THEN reg_out
            ELSE Merge(reg_out, ConsultarNormaOracle(b, fid.valor))
        unido ==
            IF codigo_op # "" /\ oracle_disponible
            THEN Con(ObtenerFidDesdeCodigoOperativo(b, codigo_op), MergeBaja)
            ELSE IF enlace_upper # "" /\ oracle_disponible
            THEN Con(ObtenerFidDesdeEnlace(b, enlace_upper), MergeNuevo)
            ELSE reg_out
    IN  [salida |-> Put(unido, "CANTIDAD", NormalizarCantidad(unido["CANTIDAD"])),
         excepcion |-> ""]

\* TXTNormaGenerator.generar_norma_txt; disco_ok is whether the output file can be
\* opened for writing
GenerarNormaTxt ==
    /\ estado = "COMPLETANDO_DATOS"
    /\ \E registros_norma \in {LeerDatosNorma(hoja_norma, datos_norma)},
          enlace_a_codigo_op \in {DetectarBajas(excel)},
          oracle_disponible \in {TestConnection(bd)} :
       \E salidas \in {[i \in 1..Len(registros_norma) |->
                          RegistroNorma(bd, registros_norma[i], enlace_a_codigo_op,
                                        oracle_disponible)]} :
       \E disco_ok \in BOOLEAN :
        LET fallidos == {i \in 1..Len(salidas) : salidas[i].excepcion # ""}
            escritos == IF fallidos = {} THEN Len(salidas)
                        ELSE (CHOOSE i \in fallidos : \A h \in fallidos : i <= h) - 1
            archivo == [encabezados |-> CamposOrden,
                        filas |-> [i \in 1..escritos |->
                                     LineaTxt(i - 1, salidas[i].salida, CamposOrden)]]
            Falla(msg) ==
                llamada' = [op |-> "generar_norma_txt",
                            excepcion |-> "Error generando archivo TXT de norma: " \o msg]
        IN  IF registros_norma = << >>
            THEN /\ Falla("No hay datos para generar archivo de norma")
                 /\ UNCHANGED archivos
            ELSE IF ~disco_ok
            THEN /\ Falla("[Errno 13] Permission denied")
                 /\ UNCHANGED archivos
            ELSE IF fallidos # {}
            THEN /\ Falla(salidas[escritos + 1].excepcion)
                 /\ archivos' = Put(archivos, "norma_nuevo", archivo)
            ELSE /\ llamada' = [op |-> "generar_norma_txt", excepcion |-> ""]
                 /\ archivos' = Put(archivos, "norma_nuevo", archivo)
    /\ UNCHANGED << excel, estado, errores, datos_excel, datos_norma, reloj, reclasificado,
                    fecha, formateada, hoja_norma, bd, respuesta >>

-----------------------------------------------------------------------------
(* Classification of one row: specification SpecClasificacion *)

ColumnasBasicas == {"Identificador", "Norma", "Poblacion", "Unidad Constructiva",
                    "Coordenada_X", "Coordenada_Y"}

\* the cells that are the same in every row of the model
FilaBase ==
    [c \in ColumnasBasicas |->
        CASE c = "Identificador" -> "P1"
          [] c = "Norma" -> "RA3-026"
          [] c = "Poblacion" -> "URBANO"
          [] c = "Unidad Constructiva" -> ""
          [] c = "Coordenada_X" -> "-72.5"
          [] c = "Coordenada_Y" -> "7.9"]

\* the pairs (Fecha Instalacion, Fecha Operacion) of the rows of the model
FechasClasificacion ==
    {<< "", "" >>, << "", "20/02/2024" >>, << "15/01/2024", "20/02/2024" >>,
     << "2024-01-15", "" >>}

\* a row with the given cells
FilaClasificacion(uc, ti, fi, fo, es) ==
    Update(FilaBase,
        [c \in {"Unidad Constructiva", "Tipo inversión", "Fecha Instalacion",
                "Fecha Operacion", "Estado Salud"} |->
            CASE c = "Unidad Constructiva" -> uc
              [] c = "Tipo inversión" -> ti
              [] c = "Fecha Instalacion" -> fi
              [] c = "Fecha Operacion" -> fo
              [] c = "Estado Salud" -> es])

\* the rows of the sheets without the column CodigoMaterial
FilasClasificacion ==
    {FilaClasificacion(uc, ti, f[1], f[2], es) :
        uc \in {"", "N3L75", "N1L1"}, ti \in {"", "II"},
        f \in FechasClasificacion, es \in {"", "1", "7"}}

\* the rows of the sheets with the column CodigoMaterial, before that cell is added
FilasConCodigoMaterial ==
    {FilaClasificacion(uc, ti, "15/01/2024", "", "1") :
        uc \in {"", "N3L75", "N1L1"}, ti \in {"", "II"}}

\* the sheets with one row, with and without the column CodigoMaterial
HojasClasificacion ==
    {[legible |-> TRUE, columnas |-> DOMAIN f, filas |-> << f >>] : f \in FilasClasificacion}
    \cup {[legible |-> TRUE, columnas |-> (DOMAIN f) \cup {"CodigoMaterial"},
           filas |-> << Put(f, "CodigoMaterial", cm) >>] :
            f \in FilasConCodigoMaterial, cm \in {"", "200067.0", "ABC"}}

InitProceso(hojas) ==
    /\ excel \in hojas
    /\ estado = "INICIADO"
    /\ errores = << >>
    /\ datos_excel = << >>
    /\ datos_norma = << >>
    /\ archivos = EmptyDict
    /\ llamada = NingunaLlamada
    /\ reloj = 0
    /\ reclasificado = << >>
    /\ fecha = ""
    /\ formateada = EmptyDict
    /\ hoja_norma = HojaVacia
    /\ bd = SinBd
    /\ respuesta = NingunaRespuesta

InitClasificacion == InitProceso(HojasClasificacion)

NextClasificacion ==
    \/ ProcesarEstructuraCompleto
    \/ ClasificarLote
    \/ GenerarTxtModular
    \/ Tic

SpecClasificacion == InitClasificacion /\ [][NextClasificacion]_vars

\* the records that clasificar_estructura has produced in this state
Clasificados ==
    {datos_excel[i] : i \in 1..Len(datos_excel)}
    \cup {datos_norma[i] : i \in 1..Len(datos_norma)}
    \cup {reclasificado[i] : i \in 1..Len(reclasificado)}

\* C7 (as stated): after classification ESTADO_SALUD is BUENO, REGULAR, MALO or empty
C7_EstadoSaludRestringido ==
    \A r \in Clasificados : Get(r, "ESTADO_SALUD") \in {"BUENO", "REGULAR", "MALO", ""}

\* the record that the first classification of row i received
EntradaClasificacion(i) == MapearRegistro(LeerFilas(excel)[i])

CamposDeAuditoria == {"OBSERVACION_CLASIFICACION_SISTEMA", "FECHA_CLASIFICACION"}

\* the project type of the record came from the column 'Tipo inversión'
TipoProyectoDeExcel(r) == Get(r, "_TIPO_PROYECTO_EXCEL") # ""

\* C10 (as the code behaves): classifying an already classified record whose project
\* type came from the investment-type column gives a record with the same fields and
\* the same value in every field other than the audit trail and the classification time.
C10_IdempotenteSalvoAuditoria ==
    \A i \in 1..Len(reclasificado) :
        TipoProyectoDeExcel(datos_excel[i]) =>
            /\ DOMAIN reclasificado[i] = DOMAIN datos_excel[i]
            /\ \A c \in (DOMAIN datos_excel[i]) \ CamposDeAuditoria :
                  reclasificado[i][c] = datos_excel[i][c]

\* a record with an Excel project type has been classified a second time, later
C10_Witness ==
    /\ Len(reclasificado) = 1
    /\ TipoProyectoDeExcel(datos_excel[1])
    /\ datos_excel[1]["TIPO_PROYECTO"] = "T2"
    /\ reclasificado[1]["TIPO_PROYECTO"] = "T2"
    /\ reclasificado[1]["FECHA_CLASIFICACION"] # datos_excel[1]["FECHA_CLASIFICACION"]

\* C10 (as stated): the second classification yields a record equal to the first
C10_Idempotente ==
    \A i \in 1..Len(reclasificado) :
        TipoProyectoDeExcel(datos_excel[i]) => reclasificado[i] = datos_excel[i]

\* the value written under the header campo in a line of the file tipo
ValorEscrito(tipo, fila, campo) ==
    LET encabezados == archivos[tipo].encabezados
    IN  fila.valores[CHOOSE j \in 1..Len(encabezados) : encabezados[j] = campo]

\* the lines of the file tipo, none when the file has not been written
Filas(tipo) ==
    IF tipo \in DOMAIN archivos
    THEN {archivos[tipo].filas[j] : j \in 1..Len(archivos[tipo].filas)} ELSE {}

\* C5 (as stated): when the sheet has the column CodigoMaterial, the material code of
\* the classified record, of the re-classified record and of the emitted row is the
\* normalised value of the cell; a blank cell stays empty.
C5_CodigoMaterialDelExcel ==
    "CodigoMaterial" \in excel.columnas =>
        LET DelExcel(i) == NormalizarCodigoMaterial(LeerFilas(excel)[i]["CodigoMaterial"])
        IN  /\ \A i \in 1..Len(datos_excel) : datos_excel[i]["CODIGO_MATERIAL"] = DelExcel(i)
            /\ \A i \in 1..Len(reclasificado) :
                  reclasificado[i]["CODIGO_MATERIAL"] = DelExcel(i)
            /\ \A f \in Filas("estructuras_nuevo") :
                  ValorEscrito("estructuras_nuevo", f, "CODIGO_MATERIAL") = DelExcel(f.origen + 1)

\* C6 (as stated): a project type that came from the column 'Tipo inversión' is the
\* project type of the classified record, of the re-classified record and of the
\* emitted row.
C6_TipoProyectoBloqueado ==
    \A i \in 1..Len(datos_excel) :
        TipoProyectoDeExcel(datos_excel[i]) =>
            /\ datos_excel[i]["TIPO_PROYECTO"] = datos_excel[i]["_TIPO_PROYECTO_EXCEL"]
            /\ i <= Len(reclasificado) =>
                  reclasificado[i]["TIPO_PROYECTO"] = datos_excel[i]["_TIPO_PROYECTO_EXCEL"]
            /\ \A f \in Filas("estructuras_nuevo") :
                  f.origen + 1 = i =>
                      ValorEscrito("estructuras_nuevo", f, "TIPO_PROYECTO")
                        = datos_excel[i]["_TIPO_PROYECTO_EXCEL"]

-----------------------------------------------------------------------------
(* Batches of structures and their files: specification Spec *)

ColumnasEstructuras ==
    ColumnasBasicas \cup {"Código FID_rep", "Año entrada operación_rep"}

\* the rows of a batch: with and without previous reference, with and without
\* construction unit
FilasEstructuras ==
    {Update(FilaBase,
        [c \in {"Código FID_rep", "Unidad Constructiva", "Identificador",
                "Año entrada operación_rep"} |->
            CASE c = "Código FID_rep" -> fid
              [] c = "Unidad Constructiva" -> uc
              [] c = "Identificador" -> id
              [] c = "Año entrada operación_rep" -> "2020"]) :
        fid \in {"", "Z238163"}, uc \in {"", "N2L79"}, id \in {"P1", "P2"}}

\* the sheets of up to MaxRegistros rows, a sheet that cannot be read and a sheet
\* without the column Norma
HojasEstructuras ==
    {[legible |-> TRUE, columnas |-> ColumnasEstructuras, filas |-> lote] :
        lote \in UNION {[1..n -> FilasEstructuras] : n \in 0..MaxRegistros}}
    \cup {[legible |-> FALSE, columnas |-> {}, filas |-> << >>],
          [legible |-> TRUE, columnas |-> ColumnasEstructuras \ {"Norma"}, filas |-> << >>]}

Init == InitProceso(HojasEstructuras)

Next ==
    \/ ProcesarEstructuraCompleto
    \/ GenerarTxtModular
    \/ GenerarEstructuras

Spec == Init /\ [][Next]_vars

\* the previous reference and the construction unit of the row at index i (from 0)
FidRepDeFila(i) == Strip(excel.filas[i + 1]["Código FID_rep"])
UcDeFila(i) == Strip(excel.filas[i + 1]["Unidad Constructiva"])

\* the record at index i (from 0) has a line in the file tipo
EnArchivo(tipo, i) == \E f \in Filas(tipo) : f.origen = i

\* _generar_estructuras has written the NEW and the DECOMMISSION file of the batch
LoteGenerado == {"estructuras", "estructuras_baja"} \subseteq DOMAIN archivos

\* C1 (as stated): once both files of a batch are written, every record of the batch
\* has a line in exactly one of the NEW file and the DECOMMISSION file.
C1_ParticionExacta ==
    LoteGenerado =>
        \A i \in 0..(Len(excel.filas) - 1) :
            EnArchivo("estructuras", i) # EnArchivo("estructuras_baja", i)

\* C2 (as stated): a record has a line in the DECOMMISSION file exactly when its
\* previous reference is present and its construction unit is empty; a record with
\* both goes to the NEW file only.
C2_BajaSiFidSinUc ==
    LoteGenerado =>
        \A i \in 0..(Len(excel.filas) - 1) :
            /\ EnArchivo("estructuras_baja", i) <=> (FidRepDeFila(i) # "" /\ UcDeFila(i) = "")
            /\ (FidRepDeFila(i) # "" /\ UcDeFila(i) # "") => EnArchivo("estructuras", i)

\* the validation errors of the batch in process, as the integrated validations
\* find them
ErroresDelLote ==
    EjecutarValidacionesIntegradas(
        PrepararDatosFinales(GetDatosCompletos(datos_excel, datos_norma)),
        LeerFilas(excel), IndicesConFidRepExactos(LeerFilas(excel))).errores

\* C3 (as stated): while the batch has a validation error, no output file of the
\* batch exists.
C3_SinArchivoConErrores ==
    (datos_excel # << >> /\ ErroresDelLote # << >>) => archivos = EmptyDict

\* C4 (as stated): when the last operation on the batch ended with an exception,
\* the state of the batch is ERROR and its errors hold the cause: the message of
\* the exception, or the validation errors behind VALIDATION_ERRORS.
C4_ErrorFatalMarcado ==
    llamada.excepcion # "" =>
        /\ estado = "ERROR"
        /\ \/ \E i \in 1..Len(errores) : errores[i] = ErrorTexto(llamada.excepcion)
           \/ /\ llamada.excepcion = "error generando archivo TXT : VALIDATION_ERRORS"
              /\ errores # << >>

-----------------------------------------------------------------------------
(* The date formatters applied to one value: specification SpecFecha *)

PartesDia == {"15", "1", "31", "00", "29"}
PartesMes == {"01", "2", "13", "15"}
PartesAnio == {"2024", "2023", "24"}

Une(a, sep, b, c) == a \o sep \o b \o sep \o c

\* the values a date cell of the sheet can hold
Fechas ==
    {"", " ", "nan", "sin fecha", " 15/01/2024 ", "99/99/9999", "15/01/2024 10:30"}
    \cup {Une(d, "/", m, y) : d \in PartesDia, m \in PartesMes, y \in PartesAnio}
    \cup {Une(d, "-", m, y) : d \in PartesDia, m \in PartesMes, y \in PartesAnio}
    \cup {Une(y, "-", m, d) : d \in PartesDia, m \in PartesMes, y \in PartesAnio}
    \cup {Une(y, "/", m, d) : d \in PartesDia, m \in PartesMes, y \in PartesAnio}

InitFecha ==
    /\ excel = HojaVacia
    /\ estado = "INICIADO"
    /\ errores = << >>
    /\ datos_excel = << >>
    /\ datos_norma = << >>
    /\ archivos = EmptyDict
    /\ llamada = NingunaLlamada
    /\ reloj = 0
    /\ reclasificado = << >>
    /\ fecha \in Fechas
    /\ formateada = EmptyDict
    /\ hoja_norma = HojaVacia
    /\ bd = SinBd
    /\ respuesta = NingunaRespuesta

SinCambioProceso ==
    UNCHANGED << excel, estado, errores, datos_excel, datos_norma,
                 archivos, llamada, reloj, reclasificado, hoja_norma, bd, respuesta >>

LlamaDataUtilsFormatearFecha ==
    /\ formateada' = Put(formateada, "DataUtils", DataUtilsFormatearFecha(fecha))
    /\ UNCHANGED fecha
    /\ SinCambioProceso

LlamaGeneradorBaseFormatearFecha ==
    /\ formateada' = Put(formateada, "GeneradorBase", GeneradorBaseFormatearFecha(fecha))
    /\ UNCHANGED fecha
    /\ SinCambioProceso

LlamaTxtEstructurasFormatearFecha ==
    /\ formateada' = Put(formateada, "TxtEstructuras", TxtEstructurasFormatearFecha(fecha))
    /\ UNCHANGED fecha
    /\ SinCambioProceso

NextFecha ==
    \/ LlamaDataUtilsFormatearFecha
    \/ LlamaGeneradorBaseFormatearFecha
    \/ LlamaTxtEstructurasFormatearFecha

SpecFecha == InitFecha /\ [][NextFecha]_vars

\* no format of the list parses the value as the formatter reads it
NoParseable(s, formatos) == s # "" /\ PrimerFormato(s, formatos) = 0

\* C9 (as the code behaves): a date that none of a formatter's formats parses is
\* returned unchanged only by TXTEstructurasGenerator._formatear_fecha;
\* GeneradorBase.formatear_fecha replaces it by the placeholder 01/01/1900 and
\* DataUtils.formatear_fecha blanks it, unless its stripped text already has the
\* shape NN/NN/NNNN, which is returned stripped.
C9_FechaNoParseable ==
    /\ ("TxtEstructuras" \in DOMAIN formateada /\ NoParseable(fecha, FormatosTxtEstructuras))
          => formateada["TxtEstructuras"] = fecha
    /\ ("GeneradorBase" \in DOMAIN formateada /\ NoParseable(Strip(fecha), FormatosGeneradorBase))
          => formateada["GeneradorBase"] = "01/01/1900"
    /\ ("DataUtils" \in DOMAIN formateada /\ NoParseable(Strip(fecha), FormatosDataUtils))
          => formateada["DataUtils"] = (IF EsDDMMYYYY(Strip(fecha)) THEN Strip(fecha) ELSE "")

\* the three formatters have run on a date none of them can parse
C9_Witness ==
    /\ DOMAIN formateada = {"DataUtils", "GeneradorBase", "TxtEstructuras"}
    /\ fecha = "31/2/2024"
    /\ NoParseable(fecha, FormatosTxtEstructuras)
    /\ NoParseable(fecha, FormatosGeneradorBase)
    /\ NoParseable(fecha, FormatosDataUtils)
    /\ formateada["TxtEstructuras"] = "31/2/2024"

\* C9 as stated: whatever formatter ran, an unparseable date comes back unchanged
C9_PasaSinCambio ==
    \A k \in DOMAIN formateada :
        NoParseable(Strip(fecha), FormatosGeneradorBase) => formateada[k] = fecha


-----------------------------------------------------------------------------
(* The routing test of generar_txt_baja applied to records: specification SpecRuta *)

\* the keys under which a record of the model may carry a reference code: two of
\* the explicit keys, two headers that only contain 'fid', and one that does not
ClavesRuta == {"FID_ANTERIOR", "Código FID_rep", "CODIGO_FID_GIT", "Código FID GIT",
               "OBSERVACIONES"}

\* a transformed record without reference code
RegistroBase == TransformarRegistro(FilaBase, 0, 0)

\* the records handed to the routing test: the base record with one of the keys set
RegistrosRuta ==
    {Put(Put(RegistroBase, "ENLACE", enlace), k, v) :
        k \in ClavesRuta, v \in {"", "Z238163"}, enlace \in {"P1"}}

InitRuta ==
    /\ excel = HojaVacia
    /\ estado = "COMPLETANDO_DATOS"
    /\ errores = << >>
    /\ datos_excel \in UNION {[1..n -> RegistrosRuta] : n \in 1..MaxRegistros}
    /\ datos_norma = << >>
    /\ archivos = EmptyDict
    /\ llamada = NingunaLlamada
    /\ reloj = 0
    /\ reclasificado = << >>
    /\ fecha = ""
    /\ formateada = EmptyDict
    /\ hoja_norma = HojaVacia
    /\ bd = SinBd
    /\ respuesta = NingunaRespuesta

NextRuta ==
    \/ GenerarEstructuras
    \/ Tic

SpecRuta == InitRuta /\ [][NextRuta]_vars

\* the explicit keys of extraer_fid_rep
ClavesExplicitas == {"Código FID_rep", "Codigo FID_rep", "CODIGO_FID_REP",
                     "codigo_fid_rep", "FID_ANTERIOR", "FID"}

-----------------------------------------------------------------------------
(* The file of norms and the reference database: specification SpecNorma *)

\* the rows of the structures sheet without construction unit
FilasNorma == {f \in FilasEstructuras : f["Unidad Constructiva"] = ""}

HojasNormaEstructuras ==
    {[legible |-> TRUE, columnas |-> ColumnasEstructuras, filas |-> lote] :
        lote \in UNION {[1..n -> FilasNorma] : n \in 0..MaxRegistros}}

\* the workbook has no sheet of norms, or one with a row for the link P1 and, in one
\* of them, a row without quantity for the link P2
HojasDeNormas ==
    LET Fila(id, altura) == [Identificador |-> id, Norma |-> "RA3-026", Altura |-> altura,
                             CIRCUITO |-> "C1"]
    IN  {HojaVacia} \cup
        {[legible |-> TRUE, columnas |-> {"Identificador", "Norma", "Altura", "CIRCUITO"},
          filas |-> filas] :
            filas \in {<< Fila("P1", "10.0") >>, << Fila("P1", "10.5") >>,
                       << Fila("P1", "10.0"), Fila("P2", "") >>}}

\* a row of the table norma
FilaDeNorma(norma, grupo, circuito, cantidad) ==
    [NORMA |-> norma, GRUPO |-> grupo, CIRCUITO |-> circuito, CODIGO_TRAFO |-> "",
     MACRONORMA |-> "", CANTIDAD |-> cantidad, TIPO_ADECUACION |-> ""]

\* the database with its tables: switched off, unreachable, timing out on one key,
\* or answering
BasesDeDatos ==
    {[habilitado |-> h, conecta |-> c, caida |-> k,
      codigo_operativo |-> [x \in {"Z238163"} |-> "9001"],
      enlace |-> [x \in {"P2"} |-> "9002"],
      norma |-> [x \in {"9001", "9002"} |->
                    IF x = "9001" THEN FilaDeNorma("X", "", "", "12.0")
                    ELSE FilaDeNorma("RA3-026", "NODO BD", "C9", "")]] :
        h \in BOOLEAN, c \in BOOLEAN, k \in {{}, {"Z238163"}, {"P2"}, {"9002"}}}

InitNorma ==
    /\ excel \in HojasNormaEstructuras
    /\ estado = "INICIADO"
    /\ errores = << >>
    /\ datos_excel = << >>
    /\ datos_norma = << >>
    /\ archivos = EmptyDict
    /\ llamada = NingunaLlamada
    /\ reloj = 0
    /\ reclasificado = << >>
    /\ fecha = ""
    /\ formateada = EmptyDict
    /\ hoja_norma \in HojasDeNormas
    /\ bd \in {b \in BasesDeDatos : b.caida = {} \/ (b.habilitado /\ b.conecta)}
    /\ respuesta = NingunaRespuesta

NextNorma ==
    \/ ProcesarEstructuraCompleto
    \/ GenerarNormaTxt

SpecNorma == InitNorma /\ [][NextNorma]_vars

\* generar_norma_txt has returned: the file of norms of the workbook is written
NormaEscrita ==
    /\ llamada = [op |-> "generar_norma_txt", excepcion |-> ""]
    /\ "norma_nuevo" \in DOMAIN archivos

\* the records of norm that the generator reads from the workbook and the process
RegistrosDeNorma == LeerDatosNorma(hoja_norma, datos_norma)

\* the operative code that the structures sheet gives for a link, '' when none
CodigoDeBaja(enlace) ==
    LET con_codigo == {i \in 1..Len(excel.filas) :
                          /\ Upper(Strip(excel.filas[i]["Identificador"])) = enlace
                          /\ Strip(excel.filas[i]["Código FID_rep"]) # ""}
    IN  IF enlace = "" \/ con_codigo = {} THEN ""
        ELSE Strip(excel.filas[CHOOSE i \in con_codigo : TRUE]["Código FID_rep"])

\* the row of the table norma that the database gives for a record of norm: by its
\* operative code when it is a DECOMMISSION, by its link otherwise; no row when the
\* database is off, unreachable, times out or has none
DatosDeBd(reg) ==
    LET enlace == Upper(Strip(Get(reg, "ENLACE")))
        codigo == CodigoDeBaja(enlace)
        clave == IF codigo # "" THEN codigo ELSE enlace
        tabla == IF codigo # "" THEN bd.codigo_operativo ELSE bd.enlace
    IN  IF /\ bd.habilitado /\ bd.conecta
           /\ clave \in DOMAIN tabla /\ clave \notin bd.caida
           /\ tabla[clave] \in DOMAIN bd.norma /\ tabla[clave] \notin bd.caida
        THEN bd.norma[tabla[clave]] ELSE EmptyDict

\* a record of norm is a DECOMMISSION
EsBajaDeNorma(reg) == CodigoDeBaja(Upper(Strip(Get(reg, "ENLACE")))) # ""

\* what the writer puts in the file for the value v of the field campo
Emitido(campo, v) ==
    LimpiarValorParaTxt(IF campo = "CANTIDAD" THEN NormalizarCantidad(v) ELSE v)

\* the line of the file of norms for the record at position i (from 1)
FilaDeNormaEscrita(i) == archivos["norma_nuevo"].filas[i]

\* the fields of the file of norms
CamposDeNorma == {CamposOrden[j] : j \in 1..Len(CamposOrden)}

\* C13: in the written file of norms, every field of a DECOMMISSION record for which
\* the database answered holds the value of the database when that value is not
\* empty, whatever the sheet said, and the value of the sheet when it is empty.
C13_BajaPrefiereBd ==
    NormaEscrita =>
        \A regs \in {RegistrosDeNorma} :
            /\ Len(archivos["norma_nuevo"].filas) = Len(regs)
            /\ \A i \in 1..Len(regs) : \A datos_bd \in {DatosDeBd(regs[i])} :
                (EsBajaDeNorma(regs[i]) /\ datos_bd # EmptyDict) =>
                    \A c \in CamposDeNorma :
                        ValorEscrito("norma_nuevo", FilaDeNormaEscrita(i), c) =
                            Emitido(c, IF Strip(datos_bd[c]) # ""
                                       THEN Strip(datos_bd[c]) ELSE Strip(Get(regs[i], c)))

\* C13 witness: a DECOMMISSION record is written with the norm of the database, which
\* differs from the one of the sheet, and with the group of the sheet, which the
\* database leaves empty.
C13_Witness ==
    /\ NormaEscrita
    /\ \E regs \in {RegistrosDeNorma} : \E i \in 1..Len(regs) :
        \E datos_bd \in {DatosDeBd(regs[i])} :
            /\ EsBajaDeNorma(regs[i]) /\ datos_bd # EmptyDict
            /\ datos_bd["NORMA"] # "" /\ datos_bd["NORMA"] # Strip(Get(regs[i], "NORMA"))
            /\ Strip(Get(regs[i], "NORMA")) # ""
            /\ ValorEscrito("norma_nuevo", FilaDeNormaEscrita(i), "NORMA") = datos_bd["NORMA"]
            /\ datos_bd["GRUPO"] = "" /\ Strip(Get(regs[i], "GRUPO")) # ""
            /\ ValorEscrito("norma_nuevo", FilaDeNormaEscrita(i), "GRUPO")
                    = Strip(Get(regs[i], "GRUPO"))

\* C14: in the written file of norms, a field of a record that is not a DECOMMISSION
\* and for which the database answered holds the value of the database only when
\* that value is not empty and differs from the one of the sheet; otherwise it holds
\* the value of the sheet.
C14_NuevoSoloSiDifiere ==
    NormaEscrita =>
        \A regs \in {RegistrosDeNorma} :
            /\ Len(archivos["norma_nuevo"].filas) = Len(regs)
            /\ \A i \in 1..Len(regs) : \A datos_bd \in {DatosDeBd(regs[i])} :
                ~EsBajaDeNorma(regs[i]) =>
                    \A c \in CamposDeNorma :
                        ValorEscrito("norma_nuevo", FilaDeNormaEscrita(i), c) =
                            Emitido(c, IF /\ Strip(Get(datos_bd, c)) # ""
                                          /\ Strip(Get(datos_bd, c)) # Strip(Get(regs[i], c))
                                       THEN Strip(datos_bd[c]) ELSE Strip(Get(regs[i], c)))

\* C14 witness: a record that is not a DECOMMISSION is written with the group of the
\* database, which differs from the one of the sheet, and with the quantity of the
\* sheet, which the database leaves empty.
C14_Witness ==
    /\ NormaEscrita
    /\ \E regs \in {RegistrosDeNorma} : \E i \in 1..Len(regs) :
        \E datos_bd \in {DatosDeBd(regs[i])} :
            /\ ~EsBajaDeNorma(regs[i]) /\ datos_bd # EmptyDict
            /\ datos_bd["GRUPO"] # "" /\ datos_bd["GRUPO"] # Strip(Get(regs[i], "GRUPO"))
            /\ Strip(Get(regs[i], "GRUPO")) # ""
            /\ ValorEscrito("norma_nuevo", FilaDeNormaEscrita(i), "GRUPO") = datos_bd["GRUPO"]
            /\ datos_bd["NORMA"] = Strip(Get(regs[i], "NORMA"))
            /\ datos_bd["CANTIDAD"] = "" /\ Strip(Get(regs[i], "CANTIDAD")) # ""
            /\ ValorEscrito("norma_nuevo", FilaDeNormaEscrita(i), "CANTIDAD")
                    = Strip(Get(regs[i], "CANTIDAD"))

\* the line of the file of norms for the record at position i holds the values of
\* the sheet alone
SoloValoresDeHoja(reg, i) ==
    \A c \in CamposDeNorma :
        ValorEscrito("norma_nuevo", FilaDeNormaEscrita(i), c) = Emitido(c, Strip(Get(reg, c)))

\* the file of norms has one line for each record of norm, in the order of the records
UnaFilaPorRegistro(regs) ==
    /\ Len(archivos["norma_nuevo"].filas) = Len(regs)
    /\ \A i \in 1..Len(regs) : FilaDeNormaEscrita(i).origen = i - 1

\* generar_norma_txt failed for a reason that is not the database: no record of
\* norm to write, or a file that cannot be opened
FalloAjenoALaBd(regs) ==
    llamada.excepcion =
        "Error generando archivo TXT de norma: " \o
            (IF regs = << >> THEN "No hay datos para generar archivo de norma"
             ELSE "[Errno 13] Permission denied")

\* C15: when the database is switched off or cannot be reached, generar_norma_txt
\* still writes the file, with one line per record holding the values of the sheet
\* alone; it fails only for want of records or of a writable file.
C15_SinBdSoloHoja ==
    (llamada.op = "generar_norma_txt" /\ (~bd.habilitado \/ ~bd.conecta)) =>
        \A regs \in {RegistrosDeNorma} :
            \/ FalloAjenoALaBd(regs)
            \/ /\ NormaEscrita
               /\ UnaFilaPorRegistro(regs)
               /\ \A i \in 1..Len(regs) : SoloValoresDeHoja(regs[i], i)

\* C15 witness: the database is reachable but switched off, it has a row for the
\* link of a record, and the file is written.
C15_Witness ==
    /\ NormaEscrita
    /\ ~bd.habilitado /\ bd.conecta
    /\ \E regs \in {RegistrosDeNorma} : \E i \in 1..Len(regs) :
        /\ Upper(Strip(Get(regs[i], "ENLACE"))) \in DOMAIN bd.enlace
        /\ ~EsBajaDeNorma(regs[i])
        /\ bd.norma[bd.enlace[Upper(Strip(Get(regs[i], "ENLACE")))]]["GRUPO"]
                # Strip(Get(regs[i], "GRUPO"))

\* the lookup of a record of norm fails: its key, or the identifier the key resolves
\* to, is one whose query times out
BusquedaFallida(reg) ==
    LET enlace == Upper(Strip(Get(reg, "ENLACE")))
        codigo == CodigoDeBaja(enlace)
        clave == IF codigo # "" THEN codigo ELSE enlace
        tabla == IF codigo # "" THEN bd.codigo_operativo ELSE bd.enlace
    IN  /\ bd.habilitado /\ bd.conecta
        /\ \/ clave \in bd.caida
           \/ clave \in DOMAIN tabla /\ tabla[clave] \in bd.caida

\* C16: when the lookup of a record fails, generar_norma_txt still writes one line
\* for each record, in order: the record of the failed lookup with the values of
\* the sheet, and the others reconciled as if nothing had failed.
C16_FalloNoAborta ==
    llamada.op = "generar_norma_txt" =>
        \A regs \in {RegistrosDeNorma} :
            (\E i \in 1..Len(regs) : BusquedaFallida(regs[i])) =>
                \/ FalloAjenoALaBd(regs)
                \/ /\ NormaEscrita
                   /\ UnaFilaPorRegistro(regs)
                   /\ \A i \in 1..Len(regs) :
                        BusquedaFallida(regs[i]) => SoloValoresDeHoja(regs[i], i)

\* C16 witness: the lookup of the first of two records fails, and the second is
\* written with a value of the database.
C16_Witness ==
    /\ NormaEscrita
    /\ \E regs \in {RegistrosDeNorma} :
        /\ Len(regs) = 2
        /\ BusquedaFallida(regs[1])
        /\ \E datos_bd \in {DatosDeBd(regs[2])} :
            /\ datos_bd # EmptyDict
            /\ datos_bd["GRUPO"] # Strip(Get(regs[2], "GRUPO"))
            /\ ValorEscrito("norma_nuevo", FilaDeNormaEscrita(2), "GRUPO") = datos_bd["GRUPO"]

\* the quantity of a record of norm after the merge: the one of the database when it
\* answered with one, else the one of the sheet
CantidadUnida(reg) ==
    LET datos_bd == DatosDeBd(reg)
    IN  IF Strip(Get(datos_bd, "CANTIDAD")) # "" THEN Strip(datos_bd["CANTIDAD"])
        ELSE Strip(Get(reg, "CANTIDAD"))

\* a quantity that is digits followed by a single '.0'
EsEnteroPuntoCero(q) ==
    Len(q) > 2 /\ SubSeq(q, Len(q) - 1, Len(q)) = ".0" /\ AllDigits(SubSeq(q, 1, Len(q) - 2))

\* C18: in the written file of norms, a quantity that is digits followed by '.0' is
\* written as those digits, and a missing quantity is written as '1'.
C18_CantidadNormalizada ==
    NormaEscrita =>
        \A regs \in {RegistrosDeNorma} :
            /\ Len(archivos["norma_nuevo"].filas) = Len(regs)
            /\ \A i \in 1..Len(regs) : \A q \in {CantidadUnida(regs[i])} :
                \A escrita \in {ValorEscrito("norma_nuevo", FilaDeNormaEscrita(i), "CANTIDAD")} :
                    /\ q = "" => escrita = "1"
                    /\ EsEnteroPuntoCero(q) => escrita = SubSeq(q, 1, Len(q) - 2)

\* C18 witness: a file of norms with a record of quantity '10.0' written as '10' and
\* a record without quantity written as '1'.
C18_Witness ==
    /\ NormaEscrita
    /\ \E regs \in {RegistrosDeNorma} : \E i, j \in 1..Len(regs) :
        /\ CantidadUnida(regs[i]) = "10.0"
        /\ ValorEscrito("norma_nuevo", FilaDeNormaEscrita(i), "CANTIDAD") = "10"
        /\ CantidadUnida(regs[j]) = ""
        /\ ValorEscrito("norma_nuevo", FilaDeNormaEscrita(j), "CANTIDAD") = "1"

\* C30: in the written file of norms, a quantity that is not digits followed by '.0',
\* such as '10.5', is written as it was read and is never cut at the point.
C30_CantidadSinTruncar ==
    NormaEscrita =>
        \A regs \in {RegistrosDeNorma} :
            \A i \in 1..Len(regs) : \A q \in {CantidadUnida(regs[i])} :
                (q # "" /\ ~EsEnteroPuntoCero(q)) =>
                    ValorEscrito("norma_nuevo", FilaDeNormaEscrita(i), "CANTIDAD") = q

-----------------------------------------------------------------------------
(* The reads of OracleRepository called one at a time: specification SpecRepositorio *)

\* the keys handed to the reads: blank ones, keys of the tables (as they are, with
\* white space around, in lower case) and keys that the tables do not have
ArgumentosBd == {"", "nan", "Z238163", " Z238163 ", "Z000001", "P2", "p2", "P7",
                 "9001", "9002", "9009"}

InitRepositorio ==
    /\ excel = HojaVacia
    /\ estado = "INICIADO"
    /\ errores = << >>
    /\ datos_excel = << >>
    /\ datos_norma = << >>
    /\ archivos = EmptyDict
    /\ llamada = NingunaLlamada
    /\ reloj = 0
    /\ reclasificado = << >>
    /\ fecha = ""
    /\ formateada = EmptyDict
    /\ hoja_norma = HojaVacia
    /\ bd \in BasesDeDatos
    /\ respuesta = NingunaRespuesta

\* a call of the read op with the key clave, which ended as the record r says
LlamaLectura(op, clave, r) ==
    /\ respuesta' = [op |-> op, clave |-> clave, valor |-> r.valor,
                     conexiones |-> r.conexiones]
    /\ llamada' = [op |-> op, excepcion |-> r.excepcion]
    /\ UNCHANGED << excel, estado, errores, datos_excel, datos_norma, archivos, reloj,
                    reclasificado, fecha, formateada, hoja_norma, bd >>

LlamaObtenerFidDesdeCodigoOperativo ==
    \E clave \in ArgumentosBd :
        LlamaLectura("obtener_fid_desde_codigo_operativo", clave,
                     ObtenerFidDesdeCodigoOperativo(bd, clave))

LlamaObtenerFidDesdeEnlace ==
    \E clave \in ArgumentosBd :
        LlamaLectura("obtener_fid_desde_enlace", clave, ObtenerFidDesdeEnlace(bd, clave))

LlamaConsultarNormaPorFid ==
    \E clave \in ArgumentosBd :
        LlamaLectura("consultar_norma_por_fid", clave, ConsultarNormaPorFid(bd, clave))

NextRepositorio ==
    \/ LlamaObtenerFidDesdeCodigoOperativo
    \/ LlamaObtenerFidDesdeEnlace
    \/ LlamaConsultarNormaPorFid

SpecRepositorio == InitRepositorio /\ [][NextRepositorio]_vars

\* the table that the last read looks in and the key it looks for
TablaLeida ==
    CASE respuesta.op = "obtener_fid_desde_codigo_operativo" -> bd.codigo_operativo
      [] respuesta.op = "obtener_fid_desde_enlace" -> bd.enlace
      [] OTHER -> bd.norma

ClaveLeida ==
    IF respuesta.op = "obtener_fid_desde_enlace"
    THEN Upper(Strip(respuesta.clave)) ELSE Strip(respuesta.clave)

\* the database answers the last read: it is enabled and reachable, the query does
\* not time out and the table has the key
BdResponde ==
    /\ bd.habilitado /\ bd.conecta
    /\ ClaveLeida \notin bd.caida
    /\ ClaveLeida \in DOMAIN TablaLeida

\* the last read returned its empty result
RespuestaVacia ==
    IF respuesta.op = "consultar_norma_por_fid"
    THEN respuesta.valor = EmptyDict ELSE respuesta.valor = ""

\* C17: a read of the repository never ends with an exception and opens at most one
\* connection; when the database is off, unreachable, times out or has nothing for
\* the key, it returns its empty result, and otherwise what the table holds.
C17_LecturaSinExcepcion ==
    respuesta.op # "" =>
        /\ llamada.excepcion = ""
        /\ respuesta.conexiones <= 1
        /\ IF BdResponde THEN respuesta.valor = TablaLeida[ClaveLeida] ELSE RespuestaVacia

\* C17 witness: a read of a key of the table with the database enabled and out of
\* reach returned '' after one connection attempt.
C17_Witness ==
    /\ respuesta.op = "obtener_fid_desde_codigo_operativo"
    /\ bd.habilitado /\ ~bd.conecta
    /\ ClaveLeida \in DOMAIN TablaLeida
    /\ respuesta.valor = "" /\ respuesta.conexiones = 1
    /\ llamada.excepcion = ""

-----------------------------------------------------------------------------
(* The validators of a written file applied to files: specification SpecValidacion *)

\* line.strip().split('|') for the line that holds the values
CamposLeidos(valores) == Split(Strip(Join(valores, "|")), "|")

\* TXTEstructurasGenerator._validar_archivo_txt: the exception it raises, '' when it
\* returns; a line with another number of fields is only printed
ValidarArchivoTxtEstructuras(archivo) ==
    LET lines == << archivo.encabezados >> \o [i \in 1..Len(archivo.filas) |->
                                                    archivo.filas[i].valores]
    IN  IF lines = << >> THEN "Error validando archivo TXT: Archivo vacío" ELSE ""

\* TXTNormaGenerator._validar_archivo_txt: every exception is caught and printed
ValidarArchivoTxtNorma(archivo) == ""

\* FileGenerator._validar_archivo_txt for a file of norms, a DECOMMISSION file of
\* three columns or a file of structures: the exception it raises, '' when it returns
ValidarArchivoTxtFileGenerator(archivo) ==
    LET header_fields == CamposLeidos(archivo.encabezados)
        num_fields == Len(header_fields)
        es_baja_g3e == header_fields = << "G3E_FID", "ESTADO", "FECHA_FUERA_OPERACION" >>
        es_norma == \E j \in 1..num_fields : header_fields[j] = "NORMA"
        EsFloat(x) == ParseFloat(Replace(x, ",", ".")).ok
        DeLinea(n) ==
            LET valores == archivo.filas[n].valores
                fields == CamposLeidos(valores)
                i == ToString(n + 1)
                coord_x == IF fields[1] # "" THEN fields[1] ELSE "0"
                coord_y == IF Len(fields) > 1 /\ fields[2] # "" THEN fields[2] ELSE "0"
            IN  IF Strip(Join(valores, "|")) = "" THEN << >>
                ELSE Si(Len(fields) # num_fields,
                        "Línea " \o i \o ": tiene " \o ToString(Len(fields))
                            \o " campos, se esperaban " \o ToString(num_fields))
                     \o (IF es_baja_g3e
                         THEN Si(Len(fields) # 3,
                                 "Línea " \o i \o ": se esperaban 3 campos "
                                     \o "(G3E_FID|ESTADO|FECHA_FUERA_OPERACION) y se encontraron "
                                     \o ToString(Len(fields)))
                         ELSE IF es_norma THEN << >>
                         ELSE Si(~(EsFloat(coord_x) /\ EsFloat(coord_y)),
                                 "Línea " \o i \o ": coordenadas inválidas"))
        RECURSIVE Todos(_)
        Todos(n) == IF n > Len(archivo.filas) THEN << >> ELSE DeLinea(n) \o Todos(n + 1)
        errores_txt == Todos(1)
    IN  IF errores_txt = << >> THEN ""
        ELSE "Error validando archivo TXT: Errores de validación encontrados: "
                \o Join(SubSeq(errores_txt, 1, IF Len(errores_txt) < 5 THEN Len(errores_txt)
                                               ELSE 5), "; ")

\* the files handed to the validators: a header of each kind and up to MaxRegistros
\* lines with the fields of the header, one field less or one field more
ArchivosAValidar ==
    LET Base(encabezados) ==
            IF encabezados = CamposOrden
            THEN << "RA3-026", "NODO ELECTRICO", "C1", "1T", "M1", "10", "RETENCION" >>
            ELSE IF encabezados = EncabezadosBaja
            THEN << "9001", "RETIRADO", "05/11/2025" >>
            ELSE << "-72.5", "7.9", "URBANO" >>
        Lineas(encabezados) ==
            {[origen |-> 0, valores |-> v] :
                v \in {Base(encabezados),
                       SubSeq(Base(encabezados), 1, Len(encabezados) - 1),
                       Base(encabezados) \o << "X" >>}}
    IN  {[encabezados |-> e, filas |-> filas] :
            e \in {CamposOrden, EncabezadosBaja, SubSeq(EncabezadosNuevo, 1, 3)},
            filas \in UNION {[1..n -> UNION {Lineas(h) : h \in {CamposOrden, EncabezadosBaja,
                                                      SubSeq(EncabezadosNuevo, 1, 3)}}] :
                                n \in 0..MaxRegistros}}

InitValidacion ==
    /\ excel = HojaVacia
    /\ estado = "COMPLETANDO_DATOS"
    /\ errores = << >>
    /\ datos_excel = << >>
    /\ datos_norma = << >>
    /\ archivos \in {[tipo \in {"escrito"} |-> a] : a \in ArchivosAValidar}
    /\ llamada = NingunaLlamada
    /\ reloj = 0
    /\ reclasificado = << >>
    /\ fecha = ""
    /\ formateada = EmptyDict
    /\ hoja_norma = HojaVacia
    /\ bd = SinBd
    /\ respuesta = NingunaRespuesta

\* a call of a validator on the written file, which ended with the exception e
LlamaValidador(op, e) ==
    /\ llamada' = [op |-> op, excepcion |-> e]
    /\ UNCHANGED << excel, estado, errores, datos_excel, datos_norma, archivos, reloj,
                    reclasificado, fecha, formateada, hoja_norma, bd, respuesta >>

LlamaValidarArchivoTxtEstructuras ==
    LlamaValidador("TXTEstructurasGenerator._validar_archivo_txt",
                   ValidarArchivoTxtEstructuras(archivos["escrito"]))

LlamaValidarArchivoTxtNorma ==
    LlamaValidador("TXTNormaGenerator._validar_archivo_txt",
                   ValidarArchivoTxtNorma(archivos["escrito"]))

LlamaValidarArchivoTxtFileGenerator ==
    LlamaValidador("FileGenerator._validar_archivo_txt",
                   ValidarArchivoTxtFileGenerator(archivos["escrito"]))

NextValidacion ==
    \/ LlamaValidarArchivoTxtEstructuras
    \/ LlamaValidarArchivoTxtNorma
    \/ LlamaValidarArchivoTxtFileGenerator

SpecValidacion == InitValidacion /\ [][NextValidacion]_vars

\* the written file has a line whose number of fields is not the header's
FilaDesigual ==
    \E i \in 1..Len(archivos["escrito"].filas) :
        Len(archivos["escrito"].filas[i].valores) # Len(archivos["escrito"].encabezados)

-----------------------------------------------------------------------------
(* The writers of the output files on one workbook: specification SpecOrden *)

\* rows of the structures sheet that differ in link, previous reference and
\* construction unit
FilasOrden ==
    {f \in FilasEstructuras :
        << f["Identificador"], f["Código FID_rep"], f["Unidad Constructiva"] >> \in
            {<< "P1", "Z238163", "" >>, << "P1", "", "N2L79" >>, << "P2", "Z238163", "N2L79" >>}}

HojasOrden ==
    {[legible |-> TRUE, columnas |-> ColumnasEstructuras, filas |-> lote] :
        lote \in UNION {[1..n -> FilasOrden] : n \in 0..MaxRegistros}}

InitOrden ==
    /\ excel \in HojasOrden
    /\ estado = "INICIADO"
    /\ errores = << >>
    /\ datos_excel = << >>
    /\ datos_norma = << >>
    /\ archivos = EmptyDict
    /\ llamada = NingunaLlamada
    /\ reloj = 0
    /\ reclasificado = << >>
    /\ fecha = ""
    /\ formateada = EmptyDict
    /\ hoja_norma \in {h \in HojasDeNormas : Len(h.filas) # 1}
    /\ bd \in {b \in BasesDeDatos : b.caida = {} /\ b.habilitado = b.conecta}
    /\ respuesta = NingunaRespuesta

NextOrden ==
    \/ ProcesarEstructuraCompleto
    \/ GenerarTxtModular
    \/ GenerarEstructuras
    \/ GenerarNormaTxt

SpecOrden == InitOrden /\ [][NextOrden]_vars

\* the indices (from 0) of the input records that the writer of the file tipo is
\* handed: the records of norm for the file of norms, the rows with a previous
\* reference for the DECOMMISSION file, every row for the files of structures
Enrutados(tipo) ==
    IF tipo = "norma_nuevo" THEN 0..(Len(RegistrosDeNorma) - 1)
    ELSE IF tipo = "estructuras_baja"
    THEN {i \in 0..(Len(excel.filas) - 1) : FidRepDeFila(i) # ""}
    ELSE 0..(Len(excel.filas) - 1)

\* the line of a file of structures holds the construction unit and the previous
\* reference of the row it comes from; the other files have no column that tells the rows of the sheet apart
VieneDe(tipo, f) ==
    tipo \in {"estructuras", "estructuras_nuevo"} =>
        /\ ValorEscrito(tipo, f, "UC") = UcDeFila(f.origen)
        /\ ValorEscrito(tipo, f, "FID_ANTERIOR") = FidRepDeFila(f.origen)

-----------------------------------------------------------------------------
(* The integrated validations of generar_txt_modular: specification SpecIntegradas *)

\* a row of the structures sheet with the given link, previous reference,
\* construction unit, coordinates and year of entry into operation
FilaIntegrada(id, fid, uc, x, y, anio) ==
    Update(FilaBase,
        [c \in {"Identificador", "Código FID_rep", "Unidad Constructiva", "Coordenada_X",
                "Coordenada_Y", "Año entrada operación_rep"} |->
            CASE c = "Identificador" -> id
              [] c = "Código FID_rep" -> fid
              [] c = "Unidad Constructiva" -> uc
              [] c = "Coordenada_X" -> x
              [] c = "Coordenada_Y" -> y
              [] c = "Año entrada operación_rep" -> anio])

\* two rows without fault, a row with both coordinates on the wrong side, a row on
\* the equator, a replacement with a valid and one with a late year, a
\* decommission without link, and a row with the name of its owner
FilasIntegradas ==
    {FilaIntegrada("P1", "", "N2L79", "-72.5", "7.9", ""),
     FilaIntegrada("P2", "", "N2L79", "-72.5", "7.9", ""),
     FilaIntegrada("P2", "", "N2L79", "72.5", "-7.9", ""),
     FilaIntegrada("P2", "", "N2L79", "-72.5", "0", ""),
     FilaIntegrada("P2", "Z238163", "N2L79", "-72.5", "7.9", "1996.0"),
     FilaIntegrada("P2", "Z238163", "N2L79", "-72.5", "7.9", "2030"),
     FilaIntegrada("", "Z238163", "", "-72.5", "7.9", "1996"),
     Put(FilaIntegrada("P1", "", "N2L79", "-72.5", "7.9", ""),
         "Nombre", "CENTRALES ELECTRICAS DEL NORTE")}

HojasIntegradas ==
    {[legible |-> TRUE, columnas |-> ColumnasEstructuras, filas |-> lote] :
        lote \in UNION {[1..n -> FilasIntegradas] : n \in 0..MaxRegistros}}

InitIntegradas == InitProceso(HojasIntegradas)

NextIntegradas ==
    \/ ProcesarEstructuraCompleto
    \/ GenerarTxtModular

SpecIntegradas == InitIntegradas /\ [][NextIntegradas]_vars

\* the link of the row at index i (from 0)
EnlaceDeFila(i) == Strip(excel.filas[i + 1]["Identificador"])

\* two rows of the sheet carry the same link
EnlaceRepetido ==
    \E i, j \in 0..(Len(excel.filas) - 1) :
        i < j /\ EnlaceDeFila(i) # "" /\ EnlaceDeFila(i) = EnlaceDeFila(j)

\* generar_txt_modular has run on the processed batch
ModularEjecutado == llamada.op = "generar_txt_modular" /\ datos_excel # << >>

\* the process holds an error for the row at index i (from 0) whose text starts with
\* inicio
HayErrorDeFila(i, inicio) ==
    \E k \in 1..Len(errores) :
        errores[k].fila = i + 2 /\ StartsWith(errores[k].descripcion, inicio)

XNoNegativa(i) ==
    LET x == ParseFloat(excel.filas[i + 1]["Coordenada_X"])
    IN  x.ok /\ (~x.neg \/ EsCero(x))

\* the Y cell of the row at index i (from 0) holds a number that is not positive
YNoPositiva(i) ==
    LET y == ParseFloat(excel.filas[i + 1]["Coordenada_Y"])
    IN  y.ok /\ (y.neg \/ EsCero(y))

\* C24 (as stated): when a row of the batch has an X coordinate that is not negative
\* or a Y coordinate that is not positive, generar_txt_modular ends with
\* VALIDATION_ERRORS and the process holds a coordinate error for that row.
C24_CoordenadasInvalidas ==
    ModularEjecutado =>
        \A i \in 0..(Len(excel.filas) - 1) :
            /\ XNoNegativa(i) =>
                  /\ llamada.excepcion = "error generando archivo TXT : VALIDATION_ERRORS"
                  /\ HayErrorDeFila(i, "La coordenada X (longitud) debe ser negativa")
            /\ YNoPositiva(i) =>
                  /\ llamada.excepcion = "error generando archivo TXT : VALIDATION_ERRORS"
                  /\ HayErrorDeFila(i, "La coordenada Y (latitud) debe ser positiva")

\* C26 (as stated): the owner written in a line of the file of generar_txt_modular
\* is the category that the classification of the transformed record derived from
\* the owner text of the row.
C26_PropietarioConservado ==
    \A f \in Filas("estructuras_nuevo") :
        ValorEscrito("estructuras_nuevo", f, "PROPIETARIO")
            = datos_excel[f.origen + 1]["PROPIETARIO"]

-----------------------------------------------------------------------------
(* The check of the year of entry into operation on one row: specification SpecAnio *)

\* the texts of the cell 'Año entrada operación_rep'
AniosDeEntrada ==
    {"", " ", "nan", "None", "abc", "19 96", "1996,0", "0", "-1996", "1899", "1900",
     "1900.0", "1996", " 1996 ", "+1996", "1996.", "1996.0", "1996.00", "1996.5",
     "2024", "2024.0", "2024.5", "2025", "2030"}

\* the texts of the cell 'Código FID_rep'
FidsDeEntrada == {"", " ", "nan", "Z238163"}

\* a sheet of one row with the given previous reference and year
HojasAnio ==
    {[legible |-> TRUE, columnas |-> ColumnasEstructuras,
      filas |-> << FilaIntegrada("P1", fid, "N2L79", "-72.5", "7.9", anio) >>] :
        fid \in FidsDeEntrada, anio \in AniosDeEntrada}

InitAnio ==
    /\ excel \in HojasAnio
    /\ estado = "COMPLETANDO_DATOS"
    /\ errores = << >>
    /\ datos_excel = << >>
    /\ datos_norma = << >>
    /\ archivos = EmptyDict
    /\ llamada = NingunaLlamada
    /\ reloj = 0
    /\ reclasificado = << >>
    /\ fecha = ""
    /\ formateada = EmptyDict
    /\ hoja_norma = HojaVacia
    /\ bd = SinBd
    /\ respuesta = NingunaRespuesta

\* ValidacionesDatos.validar_año_entrada_operacion on the first row of the sheet as
\* ejecutar_validaciones_datos calls it; errores holds the errors it adds
LlamaValidarAnioEntradaOperacion ==
    /\ llamada = NingunaLlamada
    /\ \E raw_datos_excel \in {LeerFilas(excel)} :
          errores' = ValidarAnioEntradaOperacion(raw_datos_excel[1], 2,
                          0 \in IndicesConFidRepExactos(raw_datos_excel))
    /\ llamada' = [op |-> "validar_año_entrada_operacion", excepcion |-> ""]
    /\ UNCHANGED << excel, estado, datos_excel, datos_norma, archivos, reloj,
                    reclasificado, fecha, formateada, hoja_norma, bd, respuesta >>

NextAnio == LlamaValidarAnioEntradaOperacion

SpecAnio == InitAnio /\ [][NextAnio]_vars

\* the row at index i (from 0) has a previous reference
TieneFidRep(i) == FidRepDeFila(i) # "" /\ Lower(FidRepDeFila(i)) \notin {"nan", "none"}

\* the decimal texts of the whole numbers from 1900 to 2024
AniosValidos ==
    {signo \o ToString(n) \o decimales :
        signo \in {"", "+"}, n \in 1900..2024, decimales \in {"", ".", ".0", ".00"}}

-----------------------------------------------------------------------------
(* The errors that generar_txt_modular leaves on the process *)

\* the row at index i (from 0) is a decommission: previous reference and no
\* construction unit
EsDeBaja(i) == TieneFidRep(i) /\ UcDeFila(i) = ""

\* C27 (as stated): after generar_txt_modular the process holds, for a row that is a
\* decommission, neither the error of the empty construction unit nor the error
\* of the empty link.
C27_BajaSinErrorDeVacio ==
    ModularEjecutado =>
        \A i \in 0..(Len(excel.filas) - 1) :
            EsDeBaja(i) =>
                /\ ~HayErrorDeFila(i, "la Unidad Constructiva de la linea")
                /\ ~HayErrorDeFila(i, "el Enlace/Identificador de la linea")

\* C28 (as stated): the error list that generar_txt_modular stores on the process
\* holds no error twice.
C28_ErrorUnaVez ==
    ModularEjecutado =>
        \A j, k \in 1..Len(errores) : j # k => errores[j] # errores[k]

-----------------------------------------------------------------------------
(* The classifier applied to one record: specification SpecRegistro *)

\* steps 8 and 9 of FileGenerator._preparar_datos_finales: the fixed group and the
\* defaults of the critical fields that are missing or empty
ValoresDefectoFinales(registro_final) ==
    LET valores_defecto ==
            [c \in {"TIPO", "CLASE", "USO", "PORCENTAJE_PROPIEDAD", "ESTADO"} |->
                CASE c = "TIPO" -> "PRIMARIO"
                  [] c = "CLASE" -> "POSTE"
                  [] c = "USO" -> "DISTRIBUCION ENERGIA"
                  [] c = "PORCENTAJE_PROPIEDAD" -> "100"
                  [] c = "ESTADO" -> ""]
        con_grupo == Put(registro_final, "GRUPO", "ESTRUCTURAS EYT")
    IN  [c \in (DOMAIN con_grupo) \cup (DOMAIN valores_defecto) |->
            IF c \in DOMAIN valores_defecto /\ Get(con_grupo, c) = ""
            THEN valores_defecto[c] ELSE con_grupo[c]]

\* what a record brings in the fields that the classifier fixes: nothing, empty
\* values or other values
FijosDeEntrada ==
    {EmptyDict,
     [c \in {"GRUPO", "CLASE", "USO", "PORCENTAJE_PROPIEDAD"} |-> ""],
     [c \in {"GRUPO", "CLASE", "USO", "PORCENTAJE_PROPIEDAD"} |->
        CASE c = "GRUPO" -> "NODO ELECTRICO"
          [] c = "CLASE" -> "TORRE"
          [] c = "USO" -> "ALUMBRADO"
          [] c = "PORCENTAJE_PROPIEDAD" -> "50"]}

\* the construction units of the records: none, one of each level, lower case,
\* blanks around, a level without rule and a code that holds N2 after its start
UcsDeEntrada == {"", "N1L75", "N2L79", "n3l75", " N4L1 ", "N5L1", "XN2L79"}

\* the records handed to the classifier
RegistrosAClasificar ==
    {Update(fijos, [c \in {"UC", "TIPO", "NIVEL_TENSION", "PROPIETARIO"} |->
                        CASE c = "UC" -> uc
                          [] c = "TIPO" -> tipo
                          [] c = "NIVEL_TENSION" -> nivel
                          [] c = "PROPIETARIO" -> propietario]) :
        fijos \in FijosDeEntrada, uc \in UcsDeEntrada, tipo \in {"", "PRIMARIO"},
        nivel \in {"", "N1L75"}, propietario \in {"", "CENTRALES ELECTRICAS"}}

InitRegistro ==
    /\ excel = HojaVacia
    /\ estado = "COMPLETANDO_DATOS"
    /\ errores = << >>
    /\ datos_excel \in {<< r >> : r \in RegistrosAClasificar}
    /\ datos_norma = << >>
    /\ archivos = EmptyDict
    /\ llamada = NingunaLlamada
    /\ reloj = 0
    /\ reclasificado = << >>
    /\ fecha = ""
    /\ formateada = EmptyDict
    /\ hoja_norma = HojaVacia
    /\ bd = SinBd
    /\ respuesta = NingunaRespuesta

\* FileGenerator._preparar_datos_finales on the classified records
AplicarValoresDefecto ==
    /\ reclasificado # << >>
    /\ reclasificado' = [i \in 1..Len(reclasificado) |-> ValoresDefectoFinales(reclasificado[i])]
    /\ UNCHANGED << excel, estado, errores, datos_excel, datos_norma,
                    archivos, llamada, reloj, fecha, formateada,
                    hoja_norma, bd, respuesta >>

NextRegistro ==
    \/ ClasificarLote
    \/ AplicarValoresDefecto
    \/ Tic

SpecRegistro == InitRegistro /\ [][NextRegistro]_vars

\* C22: every classified record has GRUPO 'ESTRUCTURAS EYT', CLASE 'POSTE', USO
\* 'DISTRIBUCION ENERGIA' and PORCENTAJE_PROPIEDAD '100', whatever the record
\* handed to the classifier held in those fields.
C22_CamposFijos ==
    \A i \in 1..Len(reclasificado) :
        /\ reclasificado[i]["GRUPO"] = "ESTRUCTURAS EYT"
        /\ reclasificado[i]["CLASE"] = "POSTE"
        /\ reclasificado[i]["USO"] = "DISTRIBUCION ENERGIA"
        /\ reclasificado[i]["PORCENTAJE_PROPIEDAD"] = "100"

\* a record that came with other values in the four fields has been classified
C22_Witness ==
    /\ Len(reclasificado) = 1
    /\ Get(datos_excel[1], "GRUPO") = "NODO ELECTRICO"
    /\ Get(datos_excel[1], "CLASE") = "TORRE"
    /\ Get(datos_excel[1], "USO") = "ALUMBRADO"
    /\ Get(datos_excel[1], "PORCENTAJE_PROPIEDAD") = "50"

\* the type that the rules give for a construction unit: PRIMARIO when its text
\* without blanks and in upper case starts with N2, N3 or N4, SECUNDARIO otherwise
TipoSegunUc(uc) ==
    IF \E p \in {"N2", "N3", "N4"} : StartsWith(Upper(Strip(uc)), p)
    THEN "PRIMARIO" ELSE "SECUNDARIO"

\* C23: the TIPO of a classified record, also after the defaults of the final
\* preparation, is the type that the rules give for its construction unit:
\* SECUNDARIO for an empty unit or one that no rule matches, whatever the TIPO,
\* the voltage level, the owner and the fixed fields of the record were.
C23_TipoSoloPorUc ==
    \A i \in 1..Len(reclasificado) :
        reclasificado[i]["TIPO"] = TipoSegunUc(Get(datos_excel[i], "UC"))

\* a record that came as PRIMARIO with a voltage level and a unit that no rule
\* matches has been classified as SECUNDARIO
C23_Witness ==
    /\ Len(reclasificado) = 1
    /\ datos_excel[1]["UC"] = "XN2L79"
    /\ datos_excel[1]["TIPO"] = "PRIMARIO"
    /\ datos_excel[1]["NIVEL_TENSION"] = "N1L75"
    /\ reclasificado[1]["TIPO"] = "SECUNDARIO"


-----------------------------------------------------------------------------
(* GeneradorTxtBaja of generadores_nuevo: specification SpecTxtBaja *)

\* GeneradorTxtBaja.generar: encabezados
EncabezadosTxtBaja ==
    << "COORDENADA_X", "COORDENADA_Y", "UBICACION", "ESTADO", "CODIGO_MATERIAL",
       "FECHA_INSTALACION", "FECHA_OPERACION", "PROYECTO", "EMPRESA", "OBSERVACIONES",
       "CLASIFICACION_MERCADO", "TIPO_PROYECTO", "ID_MERCADO", "UC", "ESTADO_SALUD",
       "OT_MAXIMO", "CODIGO_MARCACION", "SALINIDAD", "ENLACE", "GRUPO", "TIPO", "CLASE",
       "USO", "TIPO_ADECUACION", "PROPIETARIO", "PORCENTAJE_PROPIEDAD" >>

\* the text that f.write leaves in a file opened with newline='': the header line and
\* one line for each record, the values joined with '|' and each line ended with '\n'
TextoEscrito(archivo) ==
    Join(<< Join(archivo.encabezados, "|") >>
            \o [i \in 1..Len(archivo.filas) |-> Join(archivo.filas[i].valores, "|")],
         "\n") \o "\n"

\* the rows of a written file as a reader of lines finds them
LineasLeidas(archivo) ==
    LET partes == Split(TextoEscrito(archivo), "\n")
    IN  SubSeq(partes, 1, Len(partes) - 1)

\* the texts of a cell: plain, empty, with the delimiter and with a line break
ValoresDeCelda == {"URBANO", "", "A|B", "A\nB"}

\* the records handed to GeneradorTxtBaja.generar
RegistrosTxtBaja ==
    {[COORDENADA_X |-> "-72.5", COORDENADA_Y |-> "7.9", UBICACION |-> u,
      OBSERVACIONES |-> o, ENLACE |-> "P1"] : u \in ValoresDeCelda, o \in ValoresDeCelda}

\* the process before GeneradorTxtBaja.generar is called with datos = datos_excel
InitTxtBaja ==
    /\ excel = HojaVacia
    /\ estado = "COMPLETANDO_DATOS"
    /\ errores = << >>
    /\ datos_excel \in UNION {[1..n -> RegistrosTxtBaja] : n \in 0..MaxRegistros}
    /\ datos_norma = << >>
    /\ archivos = EmptyDict
    /\ llamada = NingunaLlamada
    /\ reloj = 0
    /\ reclasificado = << >>
    /\ fecha = ""
    /\ formateada = EmptyDict
    /\ hoja_norma = HojaVacia
    /\ bd = SinBd
    /\ respuesta = NingunaRespuesta

\* GeneradorTxtBaja.generar(datos): str(valor) of each field of encabezados, joined
\* with '|', with no cleaning of the value; disco_ok is whether open succeeds
GeneradorTxtBajaGenerar ==
    /\ llamada = NingunaLlamada
    /\ \E disco_ok \in BOOLEAN :
        IF ~disco_ok
        THEN /\ llamada' = [op |-> "GeneradorTxtBaja.generar",
                            excepcion |-> "[Errno 13] Permission denied"]
             /\ UNCHANGED archivos
        ELSE /\ archivos' = Put(archivos, "estructuras_baja",
                    [encabezados |-> EncabezadosTxtBaja,
                     filas |-> [i \in 1..Len(datos_excel) |->
                                  Linea(i - 1, datos_excel[i], EncabezadosTxtBaja)]])
             /\ llamada' = [op |-> "GeneradorTxtBaja.generar", excepcion |-> ""]
    /\ UNCHANGED << estado, errores, datos_excel >>
    /\ SinCambioGeneracion

NextTxtBaja == GeneradorTxtBajaGenerar

SpecTxtBaja == InitTxtBaja /\ [][NextTxtBaja]_vars

\* C29: every data row of a written TXT file splits on '|' into as many fields as the
\* header row, whatever the values of the fields are, a '|' or a line break included
C29_CamposComoEncabezado ==
    "estructuras_baja" \in DOMAIN archivos =>
        \A lineas \in {LineasLeidas(archivos["estructuras_baja"])} :
            \A n \in 2..Len(lineas) :
                Len(Split(lineas[n], "|")) = Len(Split(lineas[1], "|"))

====
